---- MODULE Spec2Model ----
(***************************************************************************)
(* Model of the legacy-spreadsheet migration scripts:                      *)
(*   - the field normalizers (clean_val, clean_boolean, clean_date_strict, *)
(*     parse_legacy_job_number),                                           *)
(*   - the record builder of the bulk loader (prepare_all_data),           *)
(*   - the bulk sales-order loader (supabase-salesorders-fast.py),         *)
(*   - the row-by-row sales-order loader (supabase-testrun.py),            *)
(*   - the lookup-table migration (migrate-lookups.py),                    *)
(*   - the service-order loaders (supabase-service-fast.py and             *)
(*     supabase-service.py),                                               *)
(*   - the client and installer migrations (migrate-clients.py and         *)
(*     migrate-installers.py).                                             *)
(*                                                                         *)
(* Python values are modelled as tuples of one-character strings; the      *)
(* non-string values (None, float NaN, NaT, True, False, datetime) are     *)
(* tuples whose first element is a tag such as "<None>".  An exception     *)
(* leaving a function is the value Raised.  Database keys are integers,    *)
(* NULL being 0.                                                           *)
(***************************************************************************)
EXTENDS Integers, Sequences, FiniteSets, TLC

\* ------------------------------------------------------------------
\* Bounds of the model
\* ------------------------------------------------------------------
MaxRows == 2
MaxRuns == 2
MaxLookupRows == 2
MaxLookupRuns == 2
MaxTextLen == 3
MaxServiceRows == 2
MaxPartRows == 2
MaxPeopleRows == 3
MaxResolutionRows == 1

\* ------------------------------------------------------------------
\* Python values
\* ------------------------------------------------------------------
None == <<"<None>">>
NaN == <<"<NaN>">>
PyTrue == <<"<True>">>
PyFalse == <<"<False>">>
NaT == <<"<NaT>">>
Raised == <<"<raise>">>
Datetime(d, m) == <<"<datetime>", d, m>>
Tags == {"<None>", "<NaN>", "<True>", "<False>", "<datetime>", "<NaT>", "<raise>"}
NULL == 0

IsStr(v) == Len(v) = 0 \/ v[1] \notin Tags
IsDatetime(v) == Len(v) > 0 /\ v[1] = "<datetime>"

Lowers == <<"a","b","c","d","e","f","g","h","i","j","k","l","m",
            "n","o","p","q","r","s","t","u","v","w","x","y","z">>
Uppers == <<"A","B","C","D","E","F","G","H","I","J","K","L","M",
            "N","O","P","Q","R","S","T","U","V","W","X","Y","Z">>
Digits == {"0","1","2","3","4","5","6","7","8","9"}

UpperChar(c) == IF \E i \in 1..26 : Lowers[i] = c
                THEN Uppers[CHOOSE i \in 1..26 : Lowers[i] = c] ELSE c
LowerChar(c) == IF \E i \in 1..26 : Uppers[i] = c
                THEN Lowers[CHOOSE i \in 1..26 : Uppers[i] = c] ELSE c
Upper(s) == [i \in 1..Len(s) |-> UpperChar(s[i])]
Lower(s) == [i \in 1..Len(s) |-> LowerChar(s[i])]

IsSpace(c) == c \in {" ", "\t", "\n"}

RECURSIVE LStrip(_)
LStrip(s) == IF Len(s) > 0 /\ IsSpace(s[1]) THEN LStrip(Tail(s)) ELSE s
RECURSIVE RStrip(_)
RStrip(s) == IF Len(s) > 0 /\ IsSpace(s[Len(s)])
             THEN RStrip(SubSeq(s, 1, Len(s) - 1)) ELSE s
Strip(s) == RStrip(LStrip(s))

\* str(val)
Str(val) ==
    IF IsStr(val) THEN val
    ELSE IF val = None THEN <<"N","o","n","e">>
    ELSE IF val = NaN THEN <<"n","a","n">>
    ELSE IF val = PyTrue THEN <<"T","r","u","e">>
    ELSE IF val = PyFalse THEN <<"F","a","l","s","e">>
    ELSE IF val = NaT THEN <<"N","a","T">>
    ELSE <<"1","9","0","0","-", val[3], "-", val[2]>>

\* position of the first occurrence of character c in s, 0 when absent
IndexOf(s, c) == IF \E i \in 1..Len(s) : s[i] = c
                 THEN CHOOSE i \in 1..Len(s) : s[i] = c /\ \A j \in 1..(i-1) : s[j] # c
                 ELSE 0

\* ------------------------------------------------------------------
\* Field normalizers
\* ------------------------------------------------------------------
clean_val(val) ==
    IF val = None THEN None
    ELSE IF val = NaN THEN None
    ELSE LET s == Strip(Str(val))
         IN IF Lower(s) = <<"n","a","n">> \/ s = <<>> THEN None ELSE s

\* variant: the text is compared without removing surrounding whitespace
BooleanText_Untrimmed(val) == Upper(Str(val))

\* str(val).strip().upper()
BooleanText(val) == Upper(Strip(Str(val)))

\* pd.isna(val) of a scalar
pd_isna(val) == val \in {None, NaN, NaT}

clean_boolean(val) ==
    IF pd_isna(val) \/ Strip(Str(val)) = <<>> THEN None
    ELSE LET s == BooleanText(val)
         IN IF s \in {<<"T","R","U","E">>, <<"T">>, <<"Y","E","S">>, <<"Y">>, <<"1">>}
            THEN PyTrue
            ELSE IF s \in {<<"F","A","L","S","E">>, <<"F">>, <<"N","O">>, <<"N">>, <<"0">>}
            THEN PyFalse
            ELSE None

\* pd.to_datetime(val, dayfirst=True) on the values of the model: a text
\* "d/m" with one-digit day and month parses day first, the null spellings
\* of pandas give NaT, a datetime is returned as it is, everything else
\* raises.
CanParseDate(val) ==
    /\ IsStr(val) /\ Len(val) = 3
    /\ val[1] \in Digits \ {"0"} /\ val[2] = "/" /\ val[3] \in Digits \ {"0"}
to_datetime_dayfirst(val) == Datetime(val[1], val[3])
nat_strings == {<<"N","a","T">>, <<"n","a","t">>, <<"N","A","T">>,
                <<"n","a","n">>, <<"N","a","N">>, <<"N","A","N">>}
pd_to_datetime(val) ==
    IF IsDatetime(val) THEN val
    ELSE IF pd_isna(val) THEN NaT
    ELSE IF ~IsStr(val) THEN Raised
    ELSE IF val = <<>> \/ val \in nat_strings THEN NaT
    ELSE IF CanParseDate(val) THEN to_datetime_dayfirst(val)
    ELSE Raised

\* try: return pd.to_datetime(val, dayfirst=True) / except: return fallback
TryToDatetime(val, fallback) ==
    IF pd_to_datetime(val) = Raised THEN fallback ELSE pd_to_datetime(val)

clean_date_strict(val) ==
    IF pd_isna(val) \/ val = <<>> THEN None
    ELSE IF IsDatetime(val) THEN val
    ELSE TryToDatetime(val, None)

\* clean_date of the service loaders
clean_date_service(val) ==
    IF pd_isna(val) \/ val = <<>> THEN None
    ELSE IF IsDatetime(val) THEN val
    ELSE TryToDatetime(val, None)

\* datetime.now(): the time of the call
datetime_now == Datetime("now", "now")

\* clean_date of migration_utils.py
clean_date(val) ==
    IF pd_isna(val) \/ val = <<>> THEN datetime_now
    ELSE IF IsDatetime(val) THEN val
    ELSE TryToDatetime(val, datetime_now)

\* datetime(1999, 9, 19)
datetime_1999_9_19 == Datetime("19", "9")
\* variant: only the yes spellings are completion flags
SentinelTokens_YesOnly == {<<"Y">>, <<"Y","E","S">>}

SentinelTokens == {<<"Y">>, <<"Y","E","S">>, <<"T">>, <<"T","R","U","E">>,
                   <<"C","O","M","P">>, <<"C","O","M","P","L","E","T","E">>}

\* clean_timestamp_special of the sales-order loaders
clean_timestamp_special(val) ==
    LET v == clean_val(val)
    IN IF v = None THEN None
       ELSE IF Upper(v) \in SentinelTokens THEN datetime_1999_9_19
       ELSE clean_date_strict(val)

\* clean_timestamp_special of testrun.py, which imports clean_date from
\* migration_utils.py
clean_timestamp_special_testrun(val) ==
    IF pd_isna(val) \/ val = <<>> THEN None
    ELSE LET s == Upper(Strip(Str(val)))
         IN IF s \in SentinelTokens THEN datetime_1999_9_19
            ELSE IF s \in {<<"N">>, <<"N","O">>, <<"F">>, <<"F","A","L","S","E">>}
            THEN None
            ELSE clean_date(val)

\* s.replace(a + b, r) for a two-character pattern, left to right
RECURSIVE Replace2(_, _, _, _)
Replace2(s, a, b, r) ==
    IF Len(s) < 2 THEN s
    ELSE IF s[1] = a /\ s[2] = b
    THEN <<r>> \o Replace2(SubSeq(s, 3, Len(s)), a, b, r)
    ELSE <<s[1]>> \o Replace2(Tail(s), a, b, r)
\* s.replace(c, r) for a one-character pattern
Replace1(s, c, r) == [i \in 1..Len(s) |-> IF s[i] = c THEN r ELSE s[i]]

\* clean_text_multiline of the bulk loaders:
\* v.replace('\\n', '\n').replace('\t', ' ') if v else None
clean_text_multiline(val) ==
    LET v == clean_val(val)
    IN IF v = None THEN None
       ELSE Replace1(Replace2(v, "\\", "n", "\n"), "\t", " ")

\* variant: the job number is split at its last hyphen
parse_legacy_job_number_LastHyphen(job_num_raw) ==
    LET v == clean_val(job_num_raw)
    IN IF v = None THEN <<None, None>>
       ELSE IF IndexOf(v, "-") > 0
       THEN LET k == CHOOSE i \in 1..Len(v) :
                         v[i] = "-" /\ \A j \in (i + 1)..Len(v) : v[j] # "-"
            IN <<Strip(SubSeq(v, 1, k - 1)), Strip(SubSeq(v, k + 1, Len(v)))>>
       ELSE <<v, None>>

\* parse_legacy_job_number of the bulk loader: <<base, suffix>>
parse_legacy_job_number(job_num_raw) ==
    LET v == clean_val(job_num_raw)
    IN IF v = None THEN <<None, None>>
       ELSE IF IndexOf(v, "-") > 0
       THEN LET k == IndexOf(v, "-")
            IN <<Strip(SubSeq(v, 1, k - 1)), Strip(SubSeq(v, k + 1, Len(v)))>>
       ELSE <<v, None>>

\* int(s) succeeds: optional sign, digits, surrounding whitespace allowed
IsIntText(s) ==
    LET t == Strip(s)
        u == IF Len(t) > 0 /\ t[1] \in {"-", "+"} THEN Tail(t) ELSE t
    IN Len(u) > 0 /\ \A i \in 1..Len(u) : u[i] \in Digits

\* parse_legacy_job_number of the row-by-row loader: the base is int(...) of
\* the text; a ValueError gives <<None, v>>.  The integer is kept as its text.
parse_legacy_job_number_testrun(job_num_raw) ==
    LET v == clean_val(job_num_raw)
    IN IF v = None THEN <<None, None>>
       ELSE IF IndexOf(v, "-") > 0
       THEN LET k == IndexOf(v, "-")
            IN IF IsIntText(SubSeq(v, 1, k - 1))
               THEN <<Strip(SubSeq(v, 1, k - 1)), SubSeq(v, k + 1, Len(v))>>
               ELSE <<None, v>>
       ELSE IF IsIntText(v) THEN <<v, None>> ELSE <<None, v>>


\* ------------------------------------------------------------------
\* Text constants
\* ------------------------------------------------------------------
QUOTE == <<"Q","U","O","T","E">>
SOLD == <<"S","O","L","D">>
unprocessed == <<"u","n","p","r","o","c","e","s","s","e","d">>
tentative == <<"t","e","n","t","a","t","i","v","e">>
confirmed == <<"c","o","n","f","i","r","m","e","d">>

\* ------------------------------------------------------------------
\* Lookup maps (fetch_lookups): the client table is read once per run and
\* is not written by the sales-order loaders.
\* ------------------------------------------------------------------
ClientTable == {[id |-> 7, legacy_id |-> <<" ","C","1">>]}
client_map == [k \in {Strip(Str(c.legacy_id)) : c \in ClientTable} |->
                 (CHOOSE c \in ClientTable : Strip(Str(c.legacy_id)) = k).id]
\* the species, colors, door_styles and installers tables when a sales-order
\* loader starts; fetch_lookups strips the names
SpeciesTable == {[Id |-> 11, Species |-> <<"O"," ">>]}
ColorTable == {[Id |-> 21, Name |-> <<"W">>]}
DoorTable == {[id |-> 31, name |-> <<"D">>]}
InstallerTable == {[installer_id |-> 41, legacy_installer_id |-> <<"4">>]}
\* dict(zip(table[name].str.strip(), table[id]))
name_map(table, name, id) ==
    [k \in {Strip(Str(x[name])) : x \in table} |->
        (CHOOSE x \in table : Strip(Str(x[name])) = k)[id]]
species_map == name_map(SpeciesTable, "Species", "Id")
color_map == name_map(ColorTable, "Name", "Id")
door_map == name_map(DoorTable, "name", "id")
installer_map == name_map(InstallerTable, "legacy_installer_id", "installer_id")

\* variant: a missing key resolves to the first key of the table
MapGet_Default(map, k) == IF k \in DOMAIN map THEN map[k] ELSE 1

MapGet(map, k) == IF k \in DOMAIN map THEN map[k] ELSE NULL

\* variant: a value that is not a key of the map resolves to the first key
OptionalKey_Fallback(map, raw) ==
    IF clean_val(raw) \in DOMAIN map THEN map[clean_val(raw)]
    ELSE map[CHOOSE k \in DOMAIN map : TRUE]

\* map.get(clean_val(row_so.get(column))) of an optional foreign key
OptionalKey(map, raw) == MapGet(map, clean_val(raw))

\* ------------------------------------------------------------------
\* State
\* ------------------------------------------------------------------
VARIABLES
    loader,             \* "fast" (bulk), "testrun" (row by row), "builder"
    df_so,              \* the SalesOrders sheet: a sequence of raw rows
    transform_errors,   \* positions of the rows whose transform raises
    run,                \* number of the current run of the loader
    pc,                 \* position of the loader in migrate_jobs
    db,                 \* committed tables of the store
    tx,                 \* rows written by the open transaction, uncommitted
    seq,                \* next generated key of every table
    df_all,             \* fast: prepared records
    skipped,            \* fast: sales-order numbers skipped
    cabinet_ids,        \* fast: keys returned by the cabinets insert
    so_ids,             \* fast: keys of the sales orders, by record position
    prod_ids_map,       \* fast: record position -> prod_id
    inst_ids_map,       \* fast: record position -> installation_id
    job_insert_indices, \* fast: record positions of the job rows
    job_ids,            \* fast: keys returned by the jobs insert
    all_ids,            \* testrun: unique sales-order numbers
    index,              \* testrun: position in all_ids
    payload,            \* testrun: payloads of the current record
    cur,                \* testrun: cab_id, so_id_new, prod_id, inst_id, job_id
    success_jobs, success_quotes, skip_count, fail_count,
    built,              \* builder: the outcome of the record builder
    finished,           \* how the earlier runs ended ("done" or "raised")
    lk_sheet,           \* lookups: the rows of the Species/Colors/DoorStyles sheets
    lk_pc,              \* lookups: position in migrate_lookup_tables
    lk_run,             \* lookups: number of the current run
    lk_db,              \* lookups: the species, colors and door_styles tables
    lk_before,          \* lookups: the tables when the current run started
    lk_inserted,        \* lookups: rows inserted by the current run
    lk_failed,          \* lookups: tables whose insert failed, per run
    df_service,         \* service: the Service sheet
    df_bo,              \* service: the SalesBO sheet (parts)
    headers_data,       \* service, bulk: the prepared header rows
    parts_groups,       \* service, bulk: the parts of every header, by position
    new_so_ids,         \* service, bulk: keys returned by the header insert
    all_so_ids,         \* service, row by row: unique service-order numbers
    header_payload,     \* service, row by row: header of the current record
    parts_payload,      \* service, row by row: parts of the current record
    new_so_id,          \* service, row by row: key of the current header
    success_count,      \* service, row by row: records loaded
    df,                 \* clients/installers: the source sheet
    df_clean,           \* clients/installers: the frame being transformed
    df_final,           \* clients/installers: the rows handed to to_sql
    people_db,          \* clients/installers: the rows of the target table
    nz_in,              \* normalizers: the raw value
    nz_fn,              \* normalizers: the function applied to it
    nz_out              \* normalizers: the value returned

bulkLocals == <<df_all, skipped, cabinet_ids, so_ids, prod_ids_map,
                inst_ids_map, job_insert_indices, job_ids>>
rowLocals == <<all_ids, index, payload, cur>>
counters == <<success_jobs, success_quotes, skip_count, fail_count>>
store == <<db, tx, seq>>
vars == <<loader, df_so, transform_errors, run, pc, db, tx, seq, df_all, skipped, cabinet_ids,
          so_ids, prod_ids_map, inst_ids_map, job_insert_indices, job_ids,
          all_ids, index, payload, cur, success_jobs, success_quotes,
          skip_count, fail_count, built, finished, lk_sheet, lk_pc, lk_run,
          lk_db, lk_before, lk_inserted, lk_failed, df_service, df_bo,
          headers_data, parts_groups, new_so_ids, all_so_ids, header_payload,
          parts_payload, new_so_id, success_count, df, df_clean, df_final,
          people_db, nz_in, nz_fn, nz_out>>
lookupVars == <<lk_sheet, lk_pc, lk_run, lk_db, lk_before, lk_inserted, lk_failed>>
serviceLocals == <<df_service, df_bo, headers_data, parts_groups, new_so_ids,
                   all_so_ids, header_payload, parts_payload, new_so_id,
                   success_count>>
peopleVars == <<df, df_clean, df_final, people_db>>
normalizerVars == <<nz_in, nz_fn, nz_out>>
otherPrograms == <<serviceLocals, peopleVars, normalizerVars>>

TableNames == {"cabinets", "sales_orders", "production_schedule",
               "installation", "jobs", "purchase_tracking",
               "service_orders", "service_order_parts"}
EmptyTables == [t \in TableNames |-> {}]
NoCur == [cab_id |-> NULL, so_id_new |-> NULL, prod_id |-> NULL,
          inst_id |-> NULL, job_id |-> NULL]

\* ------------------------------------------------------------------
\* Record builder of the bulk loader (prepare_all_data, one source row).
\* src is the position of the source row: it stands for the column values
\* copied from that row into the rows of the bundle.
\* ------------------------------------------------------------------
\* variant: the stage is never forced by the job number
StageOf_NoForce(raw_stage, base) ==
    IF raw_stage # None THEN Upper(raw_stage) ELSE QUOTE

StageOf(raw_stage, base) ==
    LET stage == IF raw_stage # None THEN Upper(raw_stage) ELSE QUOTE
    IN IF base # None
       THEN (IF stage = QUOTE THEN SOLD ELSE stage)
       ELSE QUOTE

\* variant: a shipment is confirmed only by a true flag
ShipStatusOf_TruthyOnly(ship_date_val, legacy_conf) ==
    IF ship_date_val = None THEN unprocessed
    ELSE IF legacy_conf = PyTrue THEN confirmed ELSE unprocessed

ShipStatusOf(ship_date_val, legacy_conf) ==
    IF ship_date_val = None THEN unprocessed
    ELSE IF ship_date_val # None /\ legacy_conf = PyFalse THEN tentative
    ELSE confirmed

PrepareRecord(row_so, src) ==
    LET so_id == clean_val(row_so.SALES_OR)
        client_id == MapGet(client_map, clean_val(row_so.CLIENT_NO))
        ship_date_val == clean_date_strict(row_so.DATE_SHIP)
        legacy_conf == clean_boolean(row_so.SHIP_DATE_CONFIRM)
        bs == parse_legacy_job_number(row_so.JOB_NUM)
        raw_stage == clean_val(row_so.STAGE)
    IN IF so_id = None THEN [kind |-> "ignored"]
       ELSE IF client_id = NULL THEN [kind |-> "skipped", so_id |-> so_id]
       ELSE [kind |-> "record",
             src |-> src,
             cab_species_id |-> OptionalKey(species_map, row_so.SPECIES),
             cab_color_id |-> OptionalKey(color_map, row_so.COLOR),
             cab_door_style_id |-> OptionalKey(door_map, row_so.LOWER_DOOR),
             inst_installer_id |-> OptionalKey(installer_map, row_so.INSTALL_ID),
             so_client_id |-> client_id,
             so_stage |-> StageOf(raw_stage, bs[1]),
             so_sales_order_number |-> so_id,
             so_created_at |-> clean_date_strict(row_so.DATE_SOLD),
             prod_ship_schedule |-> ship_date_val,
             prod_ship_status |-> ShipStatusOf(ship_date_val, legacy_conf),
             job_base_number |-> bs[1],
             job_suffix |-> bs[2],
             job_is_active |-> TRUE]

\* ------------------------------------------------------------------
\* Inputs of the record builder specification
\* ------------------------------------------------------------------
BuilderJobNums == {NaN, <<>>, <<" ">>, <<"n","a","n">>, <<"M","2","0","7">>,
                   <<"5","0","0">>, <<"5","0","0","-","S","1">>, <<"-","S","1">>}
BuilderStages == {NaN, <<>>, <<"q","u","o","t","e">>, <<"Q","u","o","t","e">>,
                  <<" ","Q","U","O","T","E"," ">>, <<"s","o","l","d">>,
                  <<"S","O","L","D">>, <<"N","a","N">>, <<"p","r","o","d">>}
BuilderDates == {NaN, None, <<>>, Datetime("3", "4"), <<"5","/","2">>, <<"x">>}
BuilderFlags == {NaN, <<>>, <<"T">>, <<"f">>, <<"F","A","L","S","E">>,
                 <<"n","o">>, <<" ","y","e","s"," ">>, <<"x">>, PyTrue, PyFalse,
                 <<"0">>, <<"1">>}
BuilderRows == [SALES_OR : {<<"S","1">>}, CLIENT_NO : {<<"C","1">>},
                JOB_NUM : BuilderJobNums, STAGE : BuilderStages,
                DATE_SOLD : {NaN}, DATE_SHIP : BuilderDates,
                SHIP_DATE_CONFIRM : BuilderFlags,
                SPECIES : {NaN}, COLOR : {NaN}, LOWER_DOOR : {NaN},
                INSTALL_ID : {NaN}]

NotBuilt == [kind |-> "none"]

LookupTables == {"species", "colors", "door_styles"}
IdleLookups ==
    /\ lk_sheet = <<>> /\ lk_pc = "idle" /\ lk_run = 1
    /\ lk_db = [t \in LookupTables |-> <<>>]
    /\ lk_before = [t \in LookupTables |-> <<>>]
    /\ lk_inserted = [t \in LookupTables |-> <<>>]
    /\ lk_failed = <<{}>>

IdleService ==
    /\ df_service = <<>> /\ df_bo = <<>>
    /\ headers_data = <<>> /\ parts_groups = <<>> /\ new_so_ids = <<>>
    /\ all_so_ids = <<>> /\ header_payload = NotBuilt /\ parts_payload = <<>>
    /\ new_so_id = NULL /\ success_count = 0
IdlePeople == df = <<>> /\ df_clean = <<>> /\ df_final = <<>> /\ people_db = <<>>
IdleNormalizers == nz_in = None /\ nz_fn = "none" /\ nz_out = None

IdleLoader ==
    /\ run = 1 /\ finished = <<>>
    /\ db = EmptyTables /\ tx = EmptyTables
    /\ seq = [t \in TableNames |-> 1]
    /\ df_all = <<>> /\ skipped = <<>> /\ cabinet_ids = <<>> /\ so_ids = <<>>
    /\ prod_ids_map = <<>> /\ inst_ids_map = <<>>
    /\ job_insert_indices = <<>> /\ job_ids = <<>>
    /\ all_ids = <<>> /\ index = 1 /\ payload = NotBuilt /\ cur = NoCur
    /\ success_jobs = 0 /\ success_quotes = 0 /\ skip_count = 0 /\ fail_count = 0

InitBuilder ==
    /\ loader = "builder"
    /\ \E r \in BuilderRows : df_so = <<r>>
    /\ transform_errors = {}
    /\ pc = "build"
    /\ built = NotBuilt
    /\ IdleLoader /\ IdleLookups
    /\ IdleService /\ IdlePeople /\ IdleNormalizers

\* one iteration of the loop of prepare_all_data
BuildRecord ==
    /\ loader = "builder" /\ pc = "build"
    /\ built' = PrepareRecord(df_so[1], 1)
    /\ pc' = "built"
    /\ UNCHANGED <<loader, df_so, transform_errors, run, store, bulkLocals, rowLocals, counters,
                   finished, lookupVars, otherPrograms>>

NextBuilder == BuildRecord
SpecBuilder == InitBuilder /\ [][NextBuilder]_vars


\* ------------------------------------------------------------------
\* The store: set-based inserts with generated keys, commit and rollback.
\* A row carries rec (the position of the source row its column values were
\* taken from) and run (the run that wrote it).
\* ------------------------------------------------------------------
Positions(n) == [i \in 1..n |-> i]
Range(f) == {f[i] : i \in DOMAIN f}

\* keys generated for n rows of table t, in the order of the VALUES list
NewIds(t, n) == [i \in 1..n |-> seq[t] + i - 1]
WithIds(data, ids) == {[data[i] EXCEPT !.id = ids[i]] : i \in 1..Len(data)}
Written(t, rows) == [tx EXCEPT ![t] = @ \cup rows]
Committed(d, w) == [t \in TableNames |-> d[t] \cup w[t]]
Advance(t, n) == [seq EXCEPT ![t] = @ + n]

\* ------------------------------------------------------------------
\* Bulk loader, supabase-salesorders-fast.py
\* ------------------------------------------------------------------
\* source rows given to the bulk loader and to the row-by-row loader; to keep
\* the sheets few, a row of the bulk sheets carries the second sales-order
\* number exactly when it has a DATE_SOLD
FastRows == {r \in [SALES_OR : {<<"S","1">>, <<"S","2">>},
                    CLIENT_NO : {<<"C","1">>, <<"C","9">>},
                    JOB_NUM : {NaN, <<"M","2","0","7">>},
                    STAGE : {NaN},
                    DATE_SOLD : {NaN, <<"5","/","2">>},
                    DATE_SHIP : {NaN},
                    SHIP_DATE_CONFIRM : {NaN},
                    SPECIES : {NaN}, COLOR : {NaN}, LOWER_DOOR : {NaN},
                    INSTALL_ID : {NaN}] :
                 (r.SALES_OR = <<"S","2">>) <=> (r.DATE_SOLD # NaN)}
TestrunRows == [SALES_OR : {<<"S","1">>, <<"S","2">>},
                CLIENT_NO : {<<"C","1">>, <<"C","9">>},
                JOB_NUM : {NaN, <<"5","0","0">>, <<"M","2","0","7">>},
                STAGE : {NaN},
                DATE_SOLD : {<<"5","/","2">>},
                DATE_SHIP : {NaN},
                SHIP_DATE_CONFIRM : {NaN},
                SPECIES : {NaN}, COLOR : {NaN}, LOWER_DOOR : {NaN},
                INSTALL_ID : {NaN}]
Sheets(Rows) == UNION {[1..n -> Rows] : n \in 0..MaxRows}

IsRecord(o) == o.kind = "record"
IsSkipped(o) == o.kind = "skipped"
\* one iteration of the loop of prepare_all_data: an exception raised inside
\* the try block is caught, the sales-order number goes to skipped and the
\* loop goes on (except Exception as e: ... skipped.append(so_id))
TryPrepareRecord(row_so, src) ==
    IF clean_val(row_so.SALES_OR) = None THEN [kind |-> "ignored"]
    ELSE IF src \in transform_errors
    THEN [kind |-> "skipped", so_id |-> clean_val(row_so.SALES_OR)]
    ELSE PrepareRecord(row_so, src)
Outcomes(sheet) == [i \in 1..Len(sheet) |-> TryPrepareRecord(sheet[i], i)]
\* prepare_all_data: (records, skipped)
prepare_all_data(sheet) ==
    [records |-> SelectSeq(Outcomes(sheet), IsRecord),
     skipped |-> [i \in 1..Len(SelectSeq(Outcomes(sheet), IsSkipped)) |->
                     SelectSeq(Outcomes(sheet), IsSkipped)[i].so_id]]

HasJob(r) == r.job_base_number # None
HasDate(r) == r.so_created_at # None
JobPos(i) == HasJob(df_all[i])
WithDatePos(i) == HasDate(df_all[i])
WithoutDatePos(i) == ~HasDate(df_all[i])
so_with_date == SelectSeq(Positions(Len(df_all)), WithDatePos)
so_without_date == SelectSeq(Positions(Len(df_all)), WithoutDatePos)
job_positions == SelectSeq(Positions(Len(df_all)), JobPos)

\* variant: the returned keys are taken in presentation order
AlignIds_Presentation(positions, ids, old) ==
    [i \in 1..Len(old) |-> IF i <= Len(ids) THEN ids[i] ELSE old[i]]

\* so_ids[orig_idx] = result[i][0] for i, (orig_idx, _) in enumerate(...)
AlignIds(positions, ids, old) ==
    [i \in 1..Len(old) |->
        IF \E k \in 1..Len(positions) : positions[k] = i
        THEN ids[CHOOSE k \in 1..Len(positions) : positions[k] = i]
        ELSE old[i]]

\* variant: the map holds the key that follows the returned one
AlignMap_NextKey(positions, ids) ==
    [i \in Range(positions) |->
        ids[CHOOSE k \in 1..Len(positions) : positions[k] = i] + 1]

\* prod_ids_map[i] = results[current_res_idx][0] for the positions of the jobs
AlignMap(positions, ids) ==
    [i \in Range(positions) |->
        ids[CHOOSE k \in 1..Len(positions) : positions[k] = i]]

CabinetRow(r) ==
    [id |-> NULL, rec |-> r.src, run |-> run,
     species_id |-> r.cab_species_id, color_id |-> r.cab_color_id,
     door_style_id |-> r.cab_door_style_id]
SalesOrderRow(r, cabinet_id) ==
    [id |-> NULL, rec |-> r.src, run |-> run,
     client_id |-> r.so_client_id, cabinet_id |-> cabinet_id,
     stage |-> r.so_stage, sales_order_number |-> r.so_sales_order_number,
     created_at |-> r.so_created_at]
ProductionRow(r) ==
    [id |-> NULL, rec |-> r.src, run |-> run,
     ship_schedule |-> r.prod_ship_schedule, ship_status |-> r.prod_ship_status]
InstallationRow(r) ==
    [id |-> NULL, rec |-> r.src, run |-> run, installer_id |-> r.inst_installer_id]
JobRow(r, so, prod, inst) ==
    [id |-> NULL, rec |-> r.src, run |-> run,
     job_base_number |-> r.job_base_number, job_suffix |-> r.job_suffix,
     sales_order_id |-> so, prod_id |-> prod, installation_id |-> inst,
     is_active |-> r.job_is_active]
PurchaseRow(r, job) == [id |-> NULL, rec |-> r.src, run |-> run, job_id |-> job]

\* fetch_lookups and prepare_all_data
BulkPrepare ==
    /\ loader = "fast" /\ pc = "start"
    /\ df_all' = prepare_all_data(df_so).records
    /\ skipped' = prepare_all_data(df_so).skipped
    /\ pc' = "cabinets"
    /\ UNCHANGED <<loader, df_so, transform_errors, run, store, cabinet_ids, so_ids, prod_ids_map,
                   inst_ids_map, job_insert_indices, job_ids, rowLocals,
                   counters, built, finished, lookupVars, otherPrograms>>

\* Step 1: cabinets, one statement, then commit
BulkInsertCabinets ==
    /\ loader = "fast" /\ pc = "cabinets"
    /\ LET cab_data == [i \in 1..Len(df_all) |-> CabinetRow(df_all[i])]
           ids == NewIds("cabinets", Len(cab_data))
       IN /\ cabinet_ids' = ids
          /\ db' = Committed(db, Written("cabinets", WithIds(cab_data, ids)))
          /\ tx' = EmptyTables
          /\ seq' = Advance("cabinets", Len(cab_data))
    /\ pc' = "so_without"
    /\ UNCHANGED <<loader, df_so, transform_errors, run, df_all, skipped, so_ids, prod_ids_map,
                   inst_ids_map, job_insert_indices, job_ids, rowLocals,
                   counters, built, finished, lookupVars, otherPrograms>>

\* variant: the cabinet key is taken at the position inside the batch
SoData_BatchPosition(positions) ==
    [k \in 1..Len(positions) |->
        SalesOrderRow(df_all[positions[k]], cabinet_ids[k])]

SoData(positions) ==
    [k \in 1..Len(positions) |->
        SalesOrderRow(df_all[positions[k]], cabinet_ids[positions[k]])]

\* Step 2a: so_ids = [None] * len(df_all); the sales orders without created_at
BulkInsertSalesOrdersWithoutDate ==
    /\ loader = "fast" /\ pc = "so_without"
    /\ LET data == SoData(so_without_date)
           ids == NewIds("sales_orders", Len(data))
           blank == [i \in 1..Len(df_all) |-> NULL]
       IN IF Len(data) > 0
          THEN /\ so_ids' = AlignIds(so_without_date, ids, blank)
               /\ db' = Committed(db, Written("sales_orders", WithIds(data, ids)))
               /\ tx' = EmptyTables
               /\ seq' = Advance("sales_orders", Len(data))
          ELSE /\ so_ids' = blank
               /\ UNCHANGED store
    /\ pc' = "so_with"
    /\ UNCHANGED <<loader, df_so, transform_errors, run, df_all, skipped, cabinet_ids, prod_ids_map,
                   inst_ids_map, job_insert_indices, job_ids, rowLocals,
                   counters, built, finished, lookupVars, otherPrograms>>

\* Step 2b: the sales orders with created_at
BulkInsertSalesOrdersWithDate ==
    /\ loader = "fast" /\ pc = "so_with"
    /\ LET data == SoData(so_with_date)
           ids == NewIds("sales_orders", Len(data))
       IN IF Len(data) > 0
          THEN /\ so_ids' = AlignIds(so_with_date, ids, so_ids)
               /\ db' = Committed(db, Written("sales_orders", WithIds(data, ids)))
               /\ tx' = EmptyTables
               /\ seq' = Advance("sales_orders", Len(data))
          ELSE UNCHANGED <<so_ids, store>>
    /\ pc' = "production"
    /\ UNCHANGED <<loader, df_so, transform_errors, run, df_all, skipped, cabinet_ids, prod_ids_map,
                   inst_ids_map, job_insert_indices, job_ids, rowLocals,
                   counters, built, finished, lookupVars, otherPrograms>>

\* Step 3: production_schedule rows of the records with a job
BulkInsertProduction ==
    /\ loader = "fast" /\ pc = "production"
    /\ LET real_prod_data == [k \in 1..Len(job_positions) |->
                                 ProductionRow(df_all[job_positions[k]])]
           ids == NewIds("production_schedule", Len(real_prod_data))
       IN IF Len(real_prod_data) > 0
          THEN /\ prod_ids_map' = AlignMap(job_positions, ids)
               /\ db' = Committed(db, Written("production_schedule",
                                              WithIds(real_prod_data, ids)))
               /\ tx' = EmptyTables
               /\ seq' = Advance("production_schedule", Len(real_prod_data))
          ELSE /\ prod_ids_map' = <<>>
               /\ UNCHANGED store
    /\ pc' = "installation"
    /\ UNCHANGED <<loader, df_so, transform_errors, run, df_all, skipped, cabinet_ids, so_ids,
                   inst_ids_map, job_insert_indices, job_ids, rowLocals,
                   counters, built, finished, lookupVars, otherPrograms>>

\* Step 4: installation rows of the records with a job
BulkInsertInstallation ==
    /\ loader = "fast" /\ pc = "installation"
    /\ LET real_inst_data == [k \in 1..Len(job_positions) |->
                                 InstallationRow(df_all[job_positions[k]])]
           ids == NewIds("installation", Len(real_inst_data))
       IN IF Len(real_inst_data) > 0
          THEN /\ inst_ids_map' = AlignMap(job_positions, ids)
               /\ db' = Committed(db, Written("installation",
                                              WithIds(real_inst_data, ids)))
               /\ tx' = EmptyTables
               /\ seq' = Advance("installation", Len(real_inst_data))
          ELSE /\ inst_ids_map' = <<>>
               /\ UNCHANGED store
    /\ pc' = "jobs"
    /\ UNCHANGED <<loader, df_so, transform_errors, run, df_all, skipped, cabinet_ids, so_ids,
                   prod_ids_map, job_insert_indices, job_ids, rowLocals,
                   counters, built, finished, lookupVars, otherPrograms>>

\* Step 5: jobs; the counters are set while the job rows are collected
BulkInsertJobs ==
    /\ loader = "fast" /\ pc = "jobs"
    /\ LET job_data == [k \in 1..Len(job_positions) |->
                           JobRow(df_all[job_positions[k]],
                                  so_ids[job_positions[k]],
                                  prod_ids_map[job_positions[k]],
                                  inst_ids_map[job_positions[k]])]
           ids == NewIds("jobs", Len(job_data))
       IN /\ job_insert_indices' = job_positions
          /\ success_jobs' = Len(job_positions)
          /\ success_quotes' = Len(df_all) - Len(job_positions)
          /\ IF Len(job_data) > 0
             THEN /\ job_ids' = ids
                  /\ db' = Committed(db, Written("jobs", WithIds(job_data, ids)))
                  /\ tx' = EmptyTables
                  /\ seq' = Advance("jobs", Len(job_data))
                  /\ pc' = "purchases"
             ELSE /\ job_ids' = <<>>
                  /\ pc' = "summary"
                  /\ UNCHANGED store
    /\ UNCHANGED <<loader, df_so, transform_errors, run, df_all, skipped, cabinet_ids, so_ids,
                   prod_ids_map, inst_ids_map, rowLocals, skip_count,
                   fail_count, built, finished, lookupVars, otherPrograms>>

\* Step 5, second half: purchase_tracking rows, one per returned job key
BulkInsertPurchases ==
    /\ loader = "fast" /\ pc = "purchases"
    /\ LET purch_data == [i \in 1..Len(job_ids) |->
                             PurchaseRow(df_all[job_insert_indices[i]], job_ids[i])]
           ids == NewIds("purchase_tracking", Len(purch_data))
       IN /\ db' = Committed(db, Written("purchase_tracking",
                                         WithIds(purch_data, ids)))
          /\ tx' = EmptyTables
          /\ seq' = Advance("purchase_tracking", Len(purch_data))
    /\ pc' = "summary"
    /\ UNCHANGED <<loader, df_so, transform_errors, run, bulkLocals, rowLocals, counters, built, finished, lookupVars, otherPrograms>>

BulkSummary ==
    /\ loader = "fast" /\ pc = "summary"
    /\ skip_count' = Len(skipped)
    /\ pc' = "done"
    /\ UNCHANGED <<loader, df_so, transform_errors, run, store, bulkLocals, rowLocals,
                   success_jobs, success_quotes, fail_count, built, finished, lookupVars, otherPrograms>>

\* the statement of the current step executes when it has rows to insert
BulkStatementRuns ==
    \/ pc = "cabinets" /\ Len(df_all) > 0
    \/ pc = "so_without" /\ Len(so_without_date) > 0
    \/ pc = "so_with" /\ Len(so_with_date) > 0
    \/ pc \in {"production", "installation", "jobs"} /\ Len(job_positions) > 0
    \/ pc = "purchases"

\* a store error in the statement or the commit of the current step:
\* except Exception: raw_conn.rollback(); raise
BulkFail ==
    /\ loader = "fast" /\ BulkStatementRuns
    /\ tx' = EmptyTables
    /\ pc' = "raised"
    /\ UNCHANGED <<loader, df_so, transform_errors, run, db, seq, bulkLocals, rowLocals,
                   counters, built, finished, lookupVars, otherPrograms>>

\* ------------------------------------------------------------------
\* Row-by-row loader, supabase-testrun.py
\* ------------------------------------------------------------------
CleanedId(i) == clean_val(df_so[i].SALES_OR)
FirstOccurrence(i) ==
    /\ CleanedId(i) # None
    /\ \A j \in 1..(i - 1) : CleanedId(j) # CleanedId(i)
\* positions of the rows df_so[df_so['SALES_OR'] == so_id].iloc[0], in the
\* order of df_so['SALES_OR'].unique()
first_rows == SelectSeq(Positions(Len(df_so)), FirstOccurrence)
unique_ids == [k \in 1..Len(first_rows) |-> CleanedId(first_rows[k])]

StageOfTestrun(raw_stage) == IF raw_stage # None THEN Upper(raw_stage) ELSE QUOTE
ShipStatusOfTestrun(ship_date_val, legacy_conf) ==
    IF ship_date_val = None THEN unprocessed
    ELSE IF legacy_conf = PyTrue THEN confirmed ELSE unprocessed

\* the payloads built from one source row (EXTRACT and TRANSFORM)
TransformTestrun(row_so, src, so_id) ==
    LET ship_date_val == clean_date_strict(row_so.DATE_SHIP)
        legacy_conf == clean_boolean(row_so.SHIP_DATE_CONFIRM)
        bs == parse_legacy_job_number_testrun(row_so.JOB_NUM)
    IN [kind |-> "record",
        src |-> src,
        cab_species_id |-> OptionalKey(species_map, row_so.SPECIES),
        cab_color_id |-> OptionalKey(color_map, row_so.COLOR),
        cab_door_style_id |-> OptionalKey(door_map, row_so.LOWER_DOOR),
        inst_installer_id |-> OptionalKey(installer_map, row_so.INSTALL_ID),
        so_client_id |-> MapGet(client_map, clean_val(row_so.CLIENT_NO)),
        so_stage |-> StageOfTestrun(clean_val(row_so.STAGE)),
        so_sales_order_number |-> so_id,
        so_created_at |-> clean_date_strict(row_so.DATE_SOLD),
        prod_ship_schedule |-> ship_date_val,
        prod_ship_status |-> ShipStatusOfTestrun(ship_date_val, legacy_conf),
        job_base_number |-> bs[1],
        job_suffix |-> bs[2],
        job_is_active |-> TRUE]

\* all_ids = df_so['SALES_OR'].unique(); the counters start at zero
RowStart ==
    /\ loader = "testrun" /\ pc = "start"
    /\ all_ids' = unique_ids
    /\ index' = 1
    /\ success_jobs' = 0 /\ success_quotes' = 0
    /\ skip_count' = 0 /\ fail_count' = 0
    /\ pc' = "row_next"
    /\ UNCHANGED <<loader, df_so, transform_errors, run, store, bulkLocals, payload, cur, built, finished, lookupVars, otherPrograms>>

\* one iteration up to the dependency check inside "with conn.begin()"
RowBegin ==
    /\ loader = "testrun" /\ pc = "row_next" /\ index <= Len(all_ids)
    /\ LET p == TransformTestrun(df_so[first_rows[index]], first_rows[index],
                                 all_ids[index])
       IN IF first_rows[index] \in transform_errors
          THEN \* except Exception as e: fail_count += 1
               /\ fail_count' = fail_count + 1
               /\ index' = index + 1
               /\ pc' = "row_next"
               /\ UNCHANGED <<payload, skip_count>>
          ELSE /\ payload' = p
               /\ UNCHANGED fail_count
               /\ IF p.so_client_id = NULL
                  THEN /\ skip_count' = skip_count + 1
                       /\ index' = index + 1
                       /\ pc' = "row_next"
                  ELSE /\ pc' = "row_cabinet"
                       /\ UNCHANGED <<skip_count, index>>
    /\ cur' = NoCur
    /\ UNCHANGED <<loader, df_so, transform_errors, run, store, bulkLocals, all_ids,
                   success_jobs, success_quotes, built, finished, lookupVars,
                   otherPrograms>>

\* one INSERT ... RETURNING statement inside the open transaction
InsertOne(t, data) ==
    /\ tx' = Written(t, {[data EXCEPT !.id = seq[t]]})
    /\ seq' = Advance(t, 1)
    /\ UNCHANGED db

RowInsertCabinet ==
    /\ loader = "testrun" /\ pc = "row_cabinet"
    /\ InsertOne("cabinets", CabinetRow(payload))
    /\ cur' = [cur EXCEPT !.cab_id = seq["cabinets"]]
    /\ pc' = "row_so"
    /\ UNCHANGED <<loader, df_so, transform_errors, run, bulkLocals, all_ids, index, payload,
                   counters, built, finished, lookupVars, otherPrograms>>

RowInsertSalesOrder ==
    /\ loader = "testrun" /\ pc = "row_so"
    /\ InsertOne("sales_orders", SalesOrderRow(payload, cur.cab_id))
    /\ cur' = [cur EXCEPT !.so_id_new = seq["sales_orders"]]
    /\ IF payload.job_base_number # None
       THEN pc' = "row_prod" /\ UNCHANGED success_quotes
       ELSE pc' = "row_commit" /\ success_quotes' = success_quotes + 1
    /\ UNCHANGED <<loader, df_so, transform_errors, run, bulkLocals, all_ids, index, payload,
                   success_jobs, skip_count, fail_count, built, finished, lookupVars, otherPrograms>>

RowInsertProduction ==
    /\ loader = "testrun" /\ pc = "row_prod"
    /\ InsertOne("production_schedule", ProductionRow(payload))
    /\ cur' = [cur EXCEPT !.prod_id = seq["production_schedule"]]
    /\ pc' = "row_inst"
    /\ UNCHANGED <<loader, df_so, transform_errors, run, bulkLocals, all_ids, index, payload,
                   counters, built, finished, lookupVars, otherPrograms>>

RowInsertInstallation ==
    /\ loader = "testrun" /\ pc = "row_inst"
    /\ InsertOne("installation", InstallationRow(payload))
    /\ cur' = [cur EXCEPT !.inst_id = seq["installation"]]
    /\ pc' = "row_job"
    /\ UNCHANGED <<loader, df_so, transform_errors, run, bulkLocals, all_ids, index, payload,
                   counters, built, finished, lookupVars, otherPrograms>>

RowInsertJob ==
    /\ loader = "testrun" /\ pc = "row_job"
    /\ InsertOne("jobs", JobRow(payload, cur.so_id_new, cur.prod_id, cur.inst_id))
    /\ cur' = [cur EXCEPT !.job_id = seq["jobs"]]
    /\ pc' = "row_purch"
    /\ UNCHANGED <<loader, df_so, transform_errors, run, bulkLocals, all_ids, index, payload,
                   counters, built, finished, lookupVars, otherPrograms>>

RowInsertPurchasing ==
    /\ loader = "testrun" /\ pc = "row_purch"
    /\ InsertOne("purchase_tracking", PurchaseRow(payload, cur.job_id))
    /\ success_jobs' = success_jobs + 1
    /\ pc' = "row_commit"
    /\ UNCHANGED <<loader, df_so, transform_errors, run, bulkLocals, all_ids, index, payload, cur,
                   success_quotes, skip_count, fail_count, built, finished, lookupVars, otherPrograms>>

\* variant: every statement is committed on its own (autocommit)
CommitPoint_Autocommit(p) == p \in {"row_so", "row_prod", "row_inst", "row_job",
                                    "row_purch", "row_commit"}

\* the transaction is committed where the "with conn.begin()" block is left
CommitPoint(p) == p = "row_commit"

RowCommit ==
    /\ loader = "testrun" /\ CommitPoint(pc)
    /\ db' = Committed(db, tx)
    /\ tx' = EmptyTables
    /\ IF pc = "row_commit"
       THEN index' = index + 1 /\ pc' = "row_next"
       ELSE UNCHANGED <<index, pc>>
    /\ tx # EmptyTables \/ pc = "row_commit"
    /\ UNCHANGED <<loader, df_so, transform_errors, run, seq, bulkLocals, all_ids, payload, cur,
                   counters, built, finished, lookupVars, otherPrograms>>

\* variant: the error is not caught inside the loop and ends the run
RowFail_Abort ==
    /\ loader = "testrun"
    /\ pc \in {"row_cabinet", "row_so", "row_prod", "row_inst", "row_job",
               "row_purch", "row_commit"}
    /\ tx' = EmptyTables
    /\ pc' = "raised"
    /\ UNCHANGED <<loader, df_so, transform_errors, run, db, seq, bulkLocals, rowLocals,
                   counters, built, finished, lookupVars, otherPrograms>>

\* a store error in a statement or in the commit: the transaction is rolled
\* back, the handler counts the record as failed and the loop goes on
RowFail ==
    /\ loader = "testrun"
    /\ pc \in {"row_cabinet", "row_so", "row_prod", "row_inst", "row_job",
               "row_purch", "row_commit"}
    /\ tx' = EmptyTables
    /\ fail_count' = fail_count + 1
    /\ index' = index + 1
    /\ pc' = "row_next"
    /\ UNCHANGED <<loader, df_so, transform_errors, run, db, seq, bulkLocals, all_ids, payload,
                   cur, success_jobs, success_quotes, skip_count, built, finished, lookupVars, otherPrograms>>

RowSummary ==
    /\ loader = "testrun" /\ pc = "row_next" /\ index > Len(all_ids)
    /\ pc' = "done"
    /\ UNCHANGED <<loader, df_so, transform_errors, run, store, bulkLocals, rowLocals, counters,
                   built, finished, lookupVars, otherPrograms>>

\* ------------------------------------------------------------------
\* Runs of the sales-order loaders
\* ------------------------------------------------------------------
\* the bulk loader is started again on the same source sheets and the same store
Rerun ==
    /\ loader = "fast"
    /\ pc \in {"done", "raised"}
    /\ run < MaxRuns
    /\ run' = run + 1
    /\ finished' = Append(finished, pc)
    /\ pc' = "start"
    /\ df_all' = <<>> /\ skipped' = <<>> /\ cabinet_ids' = <<>> /\ so_ids' = <<>>
    /\ prod_ids_map' = <<>> /\ inst_ids_map' = <<>>
    /\ job_insert_indices' = <<>> /\ job_ids' = <<>>
    /\ all_ids' = <<>> /\ index' = 1 /\ payload' = NotBuilt /\ cur' = NoCur
    /\ success_jobs' = 0 /\ success_quotes' = 0
    /\ skip_count' = 0 /\ fail_count' = 0
    /\ UNCHANGED <<loader, df_so, transform_errors, store, built, lookupVars, otherPrograms>>

Init ==
    /\ \/ loader = "fast" /\ df_so \in Sheets(FastRows)
       \/ loader = "testrun" /\ df_so \in Sheets(TestrunRows)
    /\ transform_errors = {}
    /\ pc = "start"
    /\ built = NotBuilt
    /\ IdleLoader /\ IdleLookups
    /\ IdleService /\ IdlePeople /\ IdleNormalizers

Next ==
    \/ BulkPrepare
    \/ BulkInsertCabinets
    \/ BulkInsertSalesOrdersWithoutDate
    \/ BulkInsertSalesOrdersWithDate
    \/ BulkInsertProduction
    \/ BulkInsertInstallation
    \/ BulkInsertJobs
    \/ BulkInsertPurchases
    \/ BulkSummary
    \/ BulkFail
    \/ RowStart
    \/ RowBegin
    \/ RowInsertCabinet
    \/ RowInsertSalesOrder
    \/ RowInsertProduction
    \/ RowInsertInstallation
    \/ RowInsertJob
    \/ RowInsertPurchasing
    \/ RowCommit
    \/ RowFail
    \/ RowSummary
    \/ Rerun

Spec == Init /\ [][Next]_vars

\* ------------------------------------------------------------------
\* The sales-order loaders on sheets with rows whose transform raises an
\* exception that no normalizer catches
\* ------------------------------------------------------------------
TransformRows == [SALES_OR : {<<"S","1">>, <<"S","2">>},
                  CLIENT_NO : {<<"C","1">>},
                  JOB_NUM : {NaN, <<"5","0","0">>},
                  STAGE : {NaN}, DATE_SOLD : {NaN}, DATE_SHIP : {NaN},
                  SHIP_DATE_CONFIRM : {NaN},
                  SPECIES : {NaN}, COLOR : {NaN}, LOWER_DOOR : {NaN},
                  INSTALL_ID : {NaN}]

InitTransform ==
    /\ loader \in {"fast", "testrun"}
    /\ df_so \in Sheets(TransformRows)
    /\ transform_errors \in SUBSET (1..Len(df_so))
    /\ pc = "start"
    /\ built = NotBuilt
    /\ IdleLoader /\ IdleLookups
    /\ IdleService /\ IdlePeople /\ IdleNormalizers

SpecTransform == InitTransform /\ [][Next]_vars

\* ------------------------------------------------------------------
\* The sales-order loaders on sheets whose species, color, door style and
\* installer are keys of the lookup maps or not, and whose job number has a
\* base or only a suffix.  A row has at most one value that is not a key, or
\* none that is.
\* ------------------------------------------------------------------
Misses(r) == {c \in {"SPECIES", "COLOR", "LOWER_DOOR", "INSTALL_ID"} :
                 clean_val(r[c]) \notin {<<"O">>, <<"W">>, <<"D">>, <<"4">>}}
ResolutionRows == {r \in [SALES_OR : {<<"S","1">>},
                          CLIENT_NO : {<<"C","1">>},
                          JOB_NUM : {NaN, <<"5","0","0">>, <<"-","S","1">>},
                          STAGE : {NaN}, DATE_SOLD : {NaN}, DATE_SHIP : {NaN},
                          SHIP_DATE_CONFIRM : {NaN},
                          SPECIES : {<<" ","O">>, <<"X">>},
                          COLOR : {<<"W">>, NaN},
                          LOWER_DOOR : {<<"D">>, <<"d">>},
                          INSTALL_ID : {<<"4">>, <<"9">>}] :
                      Cardinality(Misses(r)) \in {0, 1, 4}}
ResolutionSheets == UNION {[1..n -> ResolutionRows] : n \in 0..MaxResolutionRows}

InitResolution ==
    /\ loader \in {"fast", "testrun"}
    /\ df_so \in ResolutionSheets
    /\ transform_errors = {}
    /\ pc = "start"
    /\ built = NotBuilt
    /\ IdleLoader /\ IdleLookups
    /\ IdleService /\ IdlePeople /\ IdleNormalizers

SpecResolution == InitResolution /\ [][Next]_vars

\* ------------------------------------------------------------------
\* Lookup tables, migrate-lookups.py.  A sheet row is [name, flag]: the
\* Species sheet reads name as Species and flag as Prefinished, the Colors
\* sheet reads name as COLOR, the DoorStyles sheet reads name as LOWER_DOOR.
\* A table is the sequence of its rows.
\* ------------------------------------------------------------------
LookupNames == {<<"a">>, <<" ","a">>, <<"A">>, <<>>}
LookupFlags == {<<"T">>, <<>>}
LookupRows == [name : LookupNames, flag : LookupFlags]
LookupSheets == UNION {[1..n -> LookupRows] : n \in 0..MaxLookupRows}
\* rows that can be in a table before the first run
OldRows == [species |-> [Species |-> <<"a"," ">>, Prefinished |-> FALSE],
            colors |-> [Name |-> <<" ","a">>],
            door_styles |-> [name |-> <<"a">>, model |-> <<"a">>,
                             is_pre_manufactured |-> FALSE,
                             is_made_in_house |-> FALSE]]

NameColumn(t) == IF t = "species" THEN "Species"
                 ELSE IF t = "colors" THEN "Name" ELSE "name"
NameOf(t, r) == IF t = "species" THEN r.Species
                ELSE IF t = "colors" THEN r.Name ELSE r.name

\* the source frame after the transform: trimmed names, empty names dropped
NonEmptyName(r) == Strip(Str(r.name)) # <<>>
fillna_False(v) == IF v = None THEN FALSE ELSE v = PyTrue
SourceRow(t, r) ==
    IF t = "species"
    THEN [Species |-> Strip(Str(r.name)),
          Prefinished |-> fillna_False(clean_boolean(r.flag))]
    ELSE IF t = "colors" THEN [Name |-> Strip(Str(r.name))]
    ELSE [name |-> Strip(Str(r.name)), model |-> Strip(Str(r.name)),
          is_pre_manufactured |-> FALSE, is_made_in_house |-> FALSE]
SourceFrame(t, sheet) ==
    LET kept == SelectSeq(sheet, NonEmptyName)
    IN [i \in 1..Len(kept) |-> SourceRow(t, kept[i])]

\* variant: the names of the table are compared as stored
existing_set_AsStored(t, table) == {NameOf(t, table[i]) : i \in 1..Len(table)}

\* set(existing[col].dropna().astype(str).str.strip().unique())
existing_set(t, table) == {Strip(Str(NameOf(t, table[i]))) : i \in 1..Len(table)}

\* drop_duplicates(subset=[name column]), the first occurrence is kept
RECURSIVE drop_duplicates(_, _)
drop_duplicates(t, rows) ==
    IF rows = <<>> THEN <<>>
    ELSE LET init == SubSeq(rows, 1, Len(rows) - 1)
             last == rows[Len(rows)]
         IN IF \E i \in 1..Len(init) : NameOf(t, init[i]) = NameOf(t, last)
            THEN drop_duplicates(t, init)
            ELSE Append(drop_duplicates(t, init), last)

\* the rows handed to to_sql for table t
NewRows(t) ==
    LET frame == SourceFrame(t, lk_sheet)
        existing == existing_set(t, lk_db[t])
        NotExisting(r) == NameOf(t, r) \notin existing
    IN drop_duplicates(t, SelectSeq(frame, NotExisting))

NextLookupPc(t) == IF t = "species" THEN "colors"
                   ELSE IF t = "colors" THEN "door_styles" ELSE "done"

\* one section of migrate_lookup_tables; the insert succeeds
MigrateTable(t) ==
    /\ lk_pc = t
    /\ lk_inserted' = [lk_inserted EXCEPT ![t] = NewRows(t)]
    /\ lk_db' = [lk_db EXCEPT ![t] = @ \o NewRows(t)]
    /\ lk_pc' = NextLookupPc(t)
    /\ UNCHANGED <<lk_sheet, lk_run, lk_before, lk_failed>>

\* one section of migrate_lookup_tables; to_sql raises, the handler of the
\* section prints the error and the next section runs
MigrateTableFails(t) ==
    /\ lk_pc = t
    /\ NewRows(t) # <<>>
    /\ lk_failed' = [lk_failed EXCEPT ![lk_run] = @ \cup {t}]
    /\ lk_pc' = NextLookupPc(t)
    /\ UNCHANGED <<lk_sheet, lk_run, lk_db, lk_before, lk_inserted>>

LoaderIdle == UNCHANGED <<loader, df_so, transform_errors, run, pc, store, bulkLocals, rowLocals,
                          counters, built, finished, otherPrograms>>

MigrateSpecies == MigrateTable("species") /\ LoaderIdle
MigrateColors == MigrateTable("colors") /\ LoaderIdle
MigrateDoorStyles == MigrateTable("door_styles") /\ LoaderIdle
MigrateLookupFails == (\E t \in LookupTables : MigrateTableFails(t)) /\ LoaderIdle

\* migrate_lookup_tables is run again on the same workbook
LookupRerun ==
    /\ lk_pc = "done" /\ lk_run < MaxLookupRuns
    /\ lk_run' = lk_run + 1
    /\ lk_before' = lk_db
    /\ lk_inserted' = [t \in LookupTables |-> <<>>]
    /\ lk_failed' = Append(lk_failed, {})
    /\ lk_pc' = "species"
    /\ UNCHANGED <<lk_sheet, lk_db>>
    /\ LoaderIdle

InitLookups ==
    /\ loader = "lookups" /\ df_so = <<>> /\ transform_errors = {} /\ pc = "idle" /\ built = NotBuilt
    /\ IdleLoader
    /\ lk_sheet \in LookupSheets
    /\ lk_pc = "species" /\ lk_run = 1
    /\ lk_db \in {[t \in LookupTables |-> IF t \in S THEN <<OldRows[t]>> ELSE <<>>] :
                     S \in SUBSET LookupTables}
    /\ lk_before = lk_db
    /\ lk_inserted = [t \in LookupTables |-> <<>>]
    /\ lk_failed = <<{}>>
    /\ IdleService /\ IdlePeople /\ IdleNormalizers

NextLookups ==
    \/ MigrateSpecies
    \/ MigrateColors
    \/ MigrateDoorStyles
    \/ MigrateLookupFails
    \/ LookupRerun

SpecLookups == InitLookups /\ [][NextLookups]_vars

\* ------------------------------------------------------------------
\* Service-order loaders, supabase-service-fast.py (bulk) and
\* supabase-service.py (row by row).  The store holds the sales orders and
\* the jobs written by an earlier sales-order load.
\* ------------------------------------------------------------------
\* float(v) succeeds on the texts of the model: digits with an optional
\* fraction; str(int(float(v))) is the integer part without leading zeros
IsFloatText(v) ==
    LET k == IndexOf(v, ".")
        whole == IF k = 0 THEN v ELSE SubSeq(v, 1, k - 1)
        frac == IF k = 0 THEN <<>> ELSE SubSeq(v, k + 1, Len(v))
    IN /\ Len(whole) > 0
       /\ \A i \in 1..Len(whole) : whole[i] \in Digits
       /\ \A i \in 1..Len(frac) : frac[i] \in Digits
RECURSIVE DropZeros(_)
DropZeros(d) == IF Len(d) > 1 /\ d[1] = "0" THEN DropZeros(Tail(d)) ELSE d
IntOfFloatText(v) ==
    DropZeros(IF IndexOf(v, ".") = 0 THEN v ELSE SubSeq(v, 1, IndexOf(v, ".") - 1))

clean_int_str(val) ==
    LET v == clean_val(val)
    IN IF v = None THEN None
       ELSE IF IsFloatText(v) THEN IntOfFloatText(v)
       ELSE v

\* the sales orders and jobs in the store when a service loader starts:
\* sales order 10 has a job, sales order 12 is a quote without a job
StoredSalesOrders == {[id |-> 5, rec |-> 0, run |-> 0,
                       sales_order_number |-> <<"1","0">>],
                      [id |-> 6, rec |-> 0, run |-> 0,
                       sales_order_number |-> <<" ","1","2">>]}
StoredJobs == {[id |-> 3, rec |-> 0, run |-> 0, sales_order_id |-> 5]}
ServiceStore == [t \in TableNames |->
                    IF t = "sales_orders" THEN StoredSalesOrders
                    ELSE IF t = "jobs" THEN StoredJobs ELSE {}]

\* variant: every sales order is a key of the map, a sales order without a
\* job is mapped to its own key
fetch_job_map_AllSalesOrders(d) ==
    [k \in {Strip(Str(x.sales_order_number)) : x \in d["sales_orders"]} |->
        LET x == CHOOSE y \in d["sales_orders"] :
                     Strip(Str(y.sales_order_number)) = k
        IN IF \E j \in d["jobs"] : j.sales_order_id = x.id
           THEN (CHOOSE j \in d["jobs"] : j.sales_order_id = x.id).id
           ELSE x.id]

\* SELECT j.id, so.sales_order_number FROM jobs j JOIN sales_orders so ...;
\* dict(zip(sales_order_number stripped, job_id))
fetch_job_map(d) ==
    LET joined == {<<j, x>> \in d["jobs"] \X d["sales_orders"] :
                       j.sales_order_id = x.id}
    IN [k \in {Strip(Str(p[2].sales_order_number)) : p \in joined} |->
           (CHOOSE p \in joined : Strip(Str(p[2].sales_order_number)) = k)[1].id]

\* pre-processing: the keys are cleaned, the rows without SO_NO are dropped
SoNo(i) == clean_int_str(df_service[i].SO_NO)
SalesOr(i) == clean_int_str(df_service[i].SALES_OR)
BoSoNo(k) == clean_int_str(df_bo[k].SO_NO)
\* drop_duplicates(subset=['SO_NO']) of the bulk loader, and the rows
\* df_service[df_service['SO_NO'] == so_no].iloc[0] of the row-by-row loader
FirstServiceRow(i) ==
    /\ SoNo(i) # None
    /\ \A j \in 1..(i - 1) : SoNo(j) # SoNo(i)
service_rows == SelectSeq(Positions(Len(df_service)), FirstServiceRow)
\* positions of the parts rows of a service-order number, in sheet order
PartsOf(so_no) ==
    LET Mine(k) == BoSoNo(k) # None /\ BoSoNo(k) = so_no
    IN SelectSeq(Positions(Len(df_bo)), Mine)

HeaderRow(i, job_id, so_no) ==
    [id |-> NULL, rec |-> i, run |-> run, job_id |-> job_id,
     service_order_number |-> so_no]
\* a part line is skipped when it has neither a part number nor a comment
EmptyPartLine(k) ==
    clean_val(df_bo[k].PART_NO) = None /\ clean_text_multiline(df_bo[k].COMMENT) = None
PartRow(k, service_order_id, default) ==
    [id |-> NULL, rec |-> k, run |-> run, service_order_id |-> service_order_id,
     part |-> IF clean_val(df_bo[k].PART_NO) = None THEN default
              ELSE clean_val(df_bo[k].PART_NO)]

\* prepare_service_data: one outcome per row of the deduplicated sheet
ServiceOutcome(i) ==
    LET so_no == clean_int_str(SoNo(i))
        legacy_sales_id == clean_int_str(SalesOr(i))
        job_id == MapGet(fetch_job_map(db), legacy_sales_id)
    IN IF job_id = NULL
       THEN [kind |-> "skipped", so_id |-> so_no]
       ELSE [kind |-> "record", header |-> HeaderRow(i, job_id, so_no),
             parts |-> PartsOf(so_no)]
ServiceOutcomes == [k \in 1..Len(service_rows) |-> ServiceOutcome(service_rows[k])]
\* variant: the parts of every row of the sheet are kept, the parts of the
\* skipped rows included
prepare_service_data_AllGroups ==
    LET recs == SelectSeq(ServiceOutcomes, IsRecord)
        skips == SelectSeq(ServiceOutcomes, IsSkipped)
    IN [headers_data |-> [k \in 1..Len(recs) |-> recs[k].header],
        parts_groups |-> [k \in 1..Len(service_rows) |->
                             PartsOf(SoNo(service_rows[k]))],
        skipped |-> [k \in 1..Len(skips) |-> skips[k].so_id]]

prepare_service_data ==
    LET recs == SelectSeq(ServiceOutcomes, IsRecord)
        skips == SelectSeq(ServiceOutcomes, IsSkipped)
    IN [headers_data |-> [k \in 1..Len(recs) |-> recs[k].header],
        parts_groups |-> [k \in 1..Len(recs) |-> recs[k].parts],
        skipped |-> [k \in 1..Len(skips) |-> skips[k].so_id]]

ServiceIdle == UNCHANGED <<df_so, transform_errors, run, df_all, cabinet_ids, so_ids,
                           prod_ids_map, inst_ids_map, job_insert_indices,
                           job_ids, rowLocals, success_jobs, success_quotes,
                           built, finished, lookupVars, peopleVars,
                           normalizerVars, df_service, df_bo>>

\* bulk: fetch_job_map and prepare_service_data; "No valid records" returns
SvPrepare ==
    /\ loader = "service_fast" /\ pc = "start"
    /\ LET prepared == prepare_service_data
       IN /\ headers_data' = prepared.headers_data
          /\ parts_groups' = prepared.parts_groups
          /\ skipped' = prepared.skipped
          /\ pc' = IF prepared.headers_data = <<>> THEN "done" ELSE "headers"
    /\ UNCHANGED <<loader, store, new_so_ids, all_so_ids, header_payload,
                   parts_payload, new_so_id, success_count, skip_count,
                   fail_count>>
    /\ ServiceIdle

\* bulk, step 1: the headers, one statement returning the keys
SvInsertHeaders ==
    /\ loader = "service_fast" /\ pc = "headers"
    /\ LET ids == NewIds("service_orders", Len(headers_data))
       IN /\ new_so_ids' = ids
          /\ tx' = Written("service_orders", WithIds(headers_data, ids))
          /\ seq' = Advance("service_orders", Len(headers_data))
    /\ pc' = "parts"
    /\ UNCHANGED <<loader, db, headers_data, parts_groups, all_so_ids,
                   header_payload, parts_payload, new_so_id, success_count,
                   skip_count, fail_count, skipped>>
    /\ ServiceIdle

\* for new_id, parts_df in zip(new_so_ids, parts_groups): the part tuples
RECURSIVE all_parts_data(_)
all_parts_data(n) ==
    IF n = 0 THEN <<>>
    ELSE LET kept == SelectSeq(parts_groups[n], LAMBDA k : ~EmptyPartLine(k))
         IN all_parts_data(n - 1) \o
            [j \in 1..Len(kept) |-> PartRow(kept[j], new_so_ids[n], <<"-">>)]

\* bulk, steps 2 and 3: the parts, one statement
SvInsertParts ==
    /\ loader = "service_fast" /\ pc = "parts"
    /\ LET data == all_parts_data(Len(new_so_ids))
           ids == NewIds("service_order_parts", Len(data))
       IN /\ tx' = Written("service_order_parts", WithIds(data, ids))
          /\ seq' = Advance("service_order_parts", Len(data))
    /\ pc' = "commit"
    /\ UNCHANGED <<loader, db, headers_data, parts_groups, new_so_ids,
                   all_so_ids, header_payload, parts_payload, new_so_id,
                   success_count, skip_count, fail_count, skipped>>
    /\ ServiceIdle

\* bulk: raw_conn.commit() and the summary
SvCommit ==
    /\ loader = "service_fast" /\ pc = "commit"
    /\ db' = Committed(db, tx)
    /\ tx' = EmptyTables
    /\ success_count' = Len(new_so_ids)
    /\ pc' = "done"
    /\ UNCHANGED <<loader, seq, headers_data, parts_groups, new_so_ids,
                   all_so_ids, header_payload, parts_payload, new_so_id,
                   skip_count, fail_count, skipped>>
    /\ ServiceIdle

\* variant: the handler commits what the run has written and re-raises
SvFail_Commits ==
    /\ loader = "service_fast"
    /\ \/ pc \in {"headers", "commit"}
       \/ pc = "parts" /\ all_parts_data(Len(new_so_ids)) # <<>>
    /\ db' = Committed(db, tx)
    /\ tx' = EmptyTables
    /\ pc' = "raised"
    /\ UNCHANGED <<loader, seq, headers_data, parts_groups, new_so_ids,
                   all_so_ids, header_payload, parts_payload, new_so_id,
                   success_count, skip_count, fail_count, skipped>>
    /\ ServiceIdle

\* bulk: a store error in a statement or in the commit:
\* except Exception: raw_conn.rollback(); raise
SvFail ==
    /\ loader = "service_fast"
    /\ \/ pc \in {"headers", "commit"}
       \/ pc = "parts" /\ all_parts_data(Len(new_so_ids)) # <<>>
    /\ tx' = EmptyTables
    /\ pc' = "raised"
    /\ UNCHANGED <<loader, db, seq, headers_data, parts_groups, new_so_ids,
                   all_so_ids, header_payload, parts_payload, new_so_id,
                   success_count, skip_count, fail_count, skipped>>
    /\ ServiceIdle

\* row by row: all_so_ids = df_service['SO_NO'].unique(), counters at zero
SvRowStart ==
    /\ loader = "service" /\ pc = "start"
    /\ all_so_ids' = [k \in 1..Len(service_rows) |-> SoNo(service_rows[k])]
    /\ index' = 1
    /\ success_count' = 0 /\ skip_count' = 0 /\ fail_count' = 0
    /\ pc' = "sv_next"
    /\ UNCHANGED <<df_so, transform_errors, run, bulkLocals, all_ids, payload, cur, success_jobs,
                   success_quotes, built, finished, lookupVars, peopleVars,
                   normalizerVars, df_service, df_bo>>
    /\ UNCHANGED <<loader, store, headers_data, parts_groups, new_so_ids,
                   header_payload, parts_payload, new_so_id>>

RowIdle == UNCHANGED <<df_so, transform_errors, run, bulkLocals, all_ids, payload, cur,
                       success_jobs, success_quotes, built, finished,
                       lookupVars, peopleVars, normalizerVars, df_service,
                       df_bo, loader, headers_data, parts_groups, new_so_ids,
                       all_so_ids>>

\* row by row: EXTRACT and TRANSFORM of one service order
SvRowBegin ==
    /\ loader = "service" /\ pc = "sv_next" /\ index <= Len(all_so_ids)
    /\ LET i == service_rows[index]
           so_no == all_so_ids[index]
           job_id == MapGet(fetch_job_map(db), SalesOr(i))
           parts_rows == PartsOf(so_no)
           kept == SelectSeq(parts_rows, LAMBDA k : ~EmptyPartLine(k))
       IN IF job_id = NULL
          THEN /\ skip_count' = skip_count + 1
               /\ index' = index + 1
               /\ pc' = "sv_next"
               /\ UNCHANGED <<header_payload, parts_payload>>
          ELSE /\ header_payload' = HeaderRow(i, job_id, so_no)
               /\ parts_payload' = [j \in 1..Len(kept) |->
                                       PartRow(kept[j], NULL,
                                               <<"U","n","k","n","o","w","n"," ","P","a","r","t">>)]
               /\ pc' = "sv_header"
               /\ UNCHANGED <<skip_count, index>>
    /\ new_so_id' = NULL
    /\ UNCHANGED <<store, success_count, fail_count>>
    /\ RowIdle

\* row by row: insert_service_header inside "with conn.begin()"
SvRowInsertHeader ==
    /\ loader = "service" /\ pc = "sv_header"
    /\ InsertOne("service_orders", header_payload)
    /\ new_so_id' = seq["service_orders"]
    /\ pc' = "sv_parts"
    /\ UNCHANGED <<index, header_payload, parts_payload, success_count,
                   skip_count, fail_count>>
    /\ RowIdle

\* row by row: insert_service_parts (no statement for an empty list), then
\* success_count += 1
SvRowInsertParts ==
    /\ loader = "service" /\ pc = "sv_parts"
    /\ LET data == [j \in 1..Len(parts_payload) |->
                       [parts_payload[j] EXCEPT !.service_order_id = new_so_id]]
           ids == NewIds("service_order_parts", Len(data))
       IN /\ tx' = Written("service_order_parts", WithIds(data, ids))
          /\ seq' = Advance("service_order_parts", Len(data))
    /\ success_count' = success_count + 1
    /\ pc' = "sv_commit"
    /\ UNCHANGED <<db, index, header_payload, parts_payload, new_so_id,
                   skip_count, fail_count>>
    /\ RowIdle

\* row by row: the transaction is committed where the block is left
SvRowCommit ==
    /\ loader = "service" /\ pc = "sv_commit"
    /\ db' = Committed(db, tx)
    /\ tx' = EmptyTables
    /\ index' = index + 1
    /\ pc' = "sv_next"
    /\ UNCHANGED <<seq, header_payload, parts_payload, new_so_id,
                   success_count, skip_count, fail_count>>
    /\ RowIdle

\* row by row: a store error in a statement or in the commit; the handler
\* counts the record as failed and the loop goes on
SvRowFail ==
    /\ loader = "service"
    /\ \/ pc \in {"sv_header", "sv_commit"}
       \/ pc = "sv_parts" /\ parts_payload # <<>>
    /\ tx' = EmptyTables
    /\ fail_count' = fail_count + 1
    /\ index' = index + 1
    /\ pc' = "sv_next"
    /\ UNCHANGED <<db, seq, header_payload, parts_payload, new_so_id,
                   success_count, skip_count>>
    /\ RowIdle

SvRowSummary ==
    /\ loader = "service" /\ pc = "sv_next" /\ index > Len(all_so_ids)
    /\ pc' = "done"
    /\ UNCHANGED <<store, index, header_payload, parts_payload, new_so_id,
                   success_count, skip_count, fail_count>>
    /\ RowIdle

\* source rows of the Service and SalesBO sheets; to keep the sheets few,
\* service order 1 is never linked to the quote and service order 2 always
\* has a sales-order number, and the part line without a part number belongs
\* to service order 1
ServiceRows == {r \in [SO_NO : {<<"1">>, <<"2",".","0">>},
                       SALES_OR : {NaN, <<"1","0",".","0">>, <<"1","2">>}] :
                   /\ r.SO_NO = <<"1">> => r.SALES_OR # <<"1","2">>
                   /\ r.SO_NO # <<"1">> => r.SALES_OR # NaN}
PartRows == {r \in [SO_NO : {<<"1">>, <<"2">>}, PART_NO : {NaN, <<"P">>},
                    COMMENT : {NaN}] :
                r.PART_NO = NaN => r.SO_NO = <<"1">>}
ServiceSheets == UNION {[1..n -> ServiceRows] : n \in 0..MaxServiceRows}
PartSheets == UNION {[1..n -> PartRows] : n \in 0..MaxPartRows}

InitService ==
    /\ loader \in {"service_fast", "service"}
    /\ df_service \in ServiceSheets
    /\ df_bo \in PartSheets
    /\ pc = "start"
    /\ df_so = <<>> /\ transform_errors = {} /\ built = NotBuilt
    /\ run = 1 /\ finished = <<>>
    /\ db = ServiceStore /\ tx = EmptyTables
    /\ seq = [t \in TableNames |-> 1]
    /\ df_all = <<>> /\ skipped = <<>> /\ cabinet_ids = <<>> /\ so_ids = <<>>
    /\ prod_ids_map = <<>> /\ inst_ids_map = <<>>
    /\ job_insert_indices = <<>> /\ job_ids = <<>>
    /\ all_ids = <<>> /\ index = 1 /\ payload = NotBuilt /\ cur = NoCur
    /\ success_jobs = 0 /\ success_quotes = 0 /\ skip_count = 0 /\ fail_count = 0
    /\ headers_data = <<>> /\ parts_groups = <<>> /\ new_so_ids = <<>>
    /\ all_so_ids = <<>> /\ header_payload = NotBuilt /\ parts_payload = <<>>
    /\ new_so_id = NULL /\ success_count = 0
    /\ IdleLookups /\ IdlePeople /\ IdleNormalizers

NextService ==
    \/ SvPrepare
    \/ SvInsertHeaders
    \/ SvInsertParts
    \/ SvCommit
    \/ SvFail
    \/ SvRowStart
    \/ SvRowBegin
    \/ SvRowInsertHeader
    \/ SvRowInsertParts
    \/ SvRowCommit
    \/ SvRowFail
    \/ SvRowSummary

SpecService == InitService /\ [][NextService]_vars

\* ------------------------------------------------------------------
\* Client and installer migrations, migrate-clients.py and
\* migrate-installers.py.  A sheet row is [ID]: CLIENT_ID of the Client
\* sheet, INSTALL_ID of the Installers sheet; rec is the position of the
\* source row and stands for its other columns.
\* ------------------------------------------------------------------
\* variant: the id is converted to text and not trimmed
astype_str_strip_Untrimmed(raw) == Str(raw)

\* df[id column].astype(str).str.strip()
astype_str_strip(raw) == Strip(Str(raw))

\* df.drop_duplicates(subset=[id column], keep='first')
RECURSIVE drop_duplicates_keep_first(_)
drop_duplicates_keep_first(rows) ==
    IF rows = <<>> THEN <<>>
    ELSE LET init == SubSeq(rows, 1, Len(rows) - 1)
             last == rows[Len(rows)]
         IN IF \E i \in 1..Len(init) : init[i].legacy_id = last.legacy_id
            THEN drop_duplicates_keep_first(init)
            ELSE Append(drop_duplicates_keep_first(init), last)

\* astype(str).replace({'nan': None, 'NaN': None, '<NA>': None}), then
\* x.strip() if x else None
sanitize_string(x) ==
    LET t == Str(x)
    IN IF t \in {<<"n","a","n">>, <<"N","a","N">>, <<"<","N","A",">">>} THEN None
       ELSE IF t = <<>> THEN None
       ELSE Strip(t)

PeopleIdle == UNCHANGED <<loader, df_so, transform_errors, run, store, bulkLocals, rowLocals,
                          counters, built, finished, lookupVars, serviceLocals,
                          normalizerVars, df>>

\* 2. Deduplicate: the id is str-converted and trimmed, first occurrence kept
PpDeduplicate ==
    /\ loader \in {"client", "installers"} /\ pc = "start"
    /\ df_clean' = drop_duplicates_keep_first(
                       [i \in 1..Len(df) |->
                           [rec |-> i, legacy_id |-> astype_str_strip(df[i].ID)]])
    /\ pc' = "transform"
    /\ UNCHANGED <<df_final, people_db>>
    /\ PeopleIdle

\* 3 to 6: rename, string sanitization, dropna on the legacy id, final columns
PpTransform ==
    /\ loader \in {"client", "installers"} /\ pc = "transform"
    /\ LET sanitized == [i \in 1..Len(df_clean) |->
                            [df_clean[i] EXCEPT !.legacy_id = sanitize_string(@)]]
           NotNa(r) == r.legacy_id # None
       IN /\ df_clean' = SelectSeq(sanitized, NotNa)
          /\ df_final' = SelectSeq(sanitized, NotNa)
    /\ pc' = "insert"
    /\ UNCHANGED people_db
    /\ PeopleIdle

\* 7. df_final.to_sql(..., if_exists='append')
PpInsert ==
    /\ loader \in {"client", "installers"} /\ pc = "insert"
    /\ people_db' = people_db \o df_final
    /\ pc' = "done"
    /\ UNCHANGED <<df_clean, df_final>>
    /\ PeopleIdle

\* 7. to_sql raises: the error is printed and nothing is inserted
PpInsertFails ==
    /\ loader \in {"client", "installers"} /\ pc = "insert"
    /\ pc' = "failed"
    /\ UNCHANGED <<df_clean, df_final, people_db>>
    /\ PeopleIdle

PeopleIds == {NaN, <<"7">>, <<" ","7">>, <<"8">>, <<" ">>}
PeopleRows == [ID : PeopleIds]
PeopleSheets == UNION {[1..n -> PeopleRows] : n \in 0..MaxPeopleRows}

InitPeople ==
    /\ loader \in {"client", "installers"}
    /\ df \in PeopleSheets
    /\ df_clean = <<>> /\ df_final = <<>> /\ people_db = <<>>
    /\ pc = "start"
    /\ df_so = <<>> /\ transform_errors = {} /\ built = NotBuilt
    /\ IdleLoader /\ IdleLookups /\ IdleService /\ IdleNormalizers

NextPeople ==
    \/ PpDeduplicate
    \/ PpTransform
    \/ PpInsert
    \/ PpInsertFails

SpecPeople == InitPeople /\ [][NextPeople]_vars

\* ------------------------------------------------------------------
\* The field normalizers applied to one raw cell value
\* ------------------------------------------------------------------
\* texts of at most MaxTextLen characters over an alphabet
RECURSIVE Texts(_, _)
Texts(alphabet, n) ==
    IF n = 0 THEN {<<>>}
    ELSE Texts(alphabet, n - 1) \cup
         {Append(t, c) : t \in Texts(alphabet, n - 1), c \in alphabet}

\* a token as the legacy sheets spell it: upper case, lower case,
\* capitalized, and with surrounding whitespace
Spelled(tok) == {tok, Lower(tok), <<tok[1]>> \o Lower(Tail(tok)),
                 <<" ">> \o tok \o <<" ">>, <<"\t">> \o Lower(tok)}
FlagTokens == {<<"T">>, <<"T","R","U","E">>, <<"Y","E","S">>, <<"Y">>, <<"1">>,
               <<"F">>, <<"F","A","L","S","E">>, <<"N","O">>, <<"N">>, <<"0">>,
               <<"C","O","M","P">>, <<"C","O","M","P","L","E","T","E">>}
MissingInputs == {None, NaN, NaT, <<>>, <<" ">>, <<"n","a","n">>}
BoolInputs == MissingInputs \cup UNION {Spelled(t) : t \in FlagTokens}
                  \cup {PyTrue, PyFalse, <<"x">>, <<"2">>, <<"1",".","0">>,
                        <<"T","R","U","E","X">>, <<"N","O","N","E">>}
DateInputs == MissingInputs \cup {Datetime("3", "4"), <<"5","/","2">>,
                                   <<"x">>, <<"5","/">>, <<"N","a","T">>, PyTrue}
TimestampInputs == DateInputs \cup UNION {Spelled(t) : t \in FlagTokens}
JobNumInputs == (MissingInputs \ {NaT})
                    \cup Texts({"5", "M", "-", " "}, MaxTextLen)
                    \cup {<<"M","2","0","7">>, <<"5","0","0","-","S","1">>,
                          <<"5","0","0","-","S","1","-","2">>,
                          <<"5","0","0"," ","-"," ","S","1">>}
TextInputs == (MissingInputs \ {NaT}) \cup Texts({"\\", "n", "t", "\t", "a"}, MaxTextLen)
NormalizerInputs == BoolInputs \cup TimestampInputs \cup JobNumInputs \cup TextInputs

Apply(fn, inputs, out) ==
    /\ loader = "normalizers" /\ nz_fn = "none"
    /\ nz_in \in inputs
    /\ nz_fn' = fn
    /\ nz_out' = out
    /\ UNCHANGED nz_in
NormalizerIdle == UNCHANGED <<loader, df_so, transform_errors, run, pc, store, bulkLocals,
                              rowLocals, counters, built, finished,
                              lookupVars, serviceLocals, peopleVars>>

ApplyCleanBoolean ==
    /\ Apply("clean_boolean", BoolInputs, clean_boolean(nz_in))
    /\ NormalizerIdle
ApplyCleanDate ==
    /\ Apply("clean_date", DateInputs, clean_date(nz_in))
    /\ NormalizerIdle
ApplyCleanDateStrict ==
    /\ Apply("clean_date_strict", DateInputs, clean_date_strict(nz_in))
    /\ NormalizerIdle
ApplyCleanDateService ==
    /\ Apply("clean_date_service", DateInputs, clean_date_service(nz_in))
    /\ NormalizerIdle
ApplyCleanTimestampSpecial ==
    /\ Apply("clean_timestamp_special", TimestampInputs,
             clean_timestamp_special(nz_in))
    /\ NormalizerIdle
ApplyCleanTimestampSpecialTestrun ==
    /\ Apply("clean_timestamp_special_testrun", TimestampInputs,
             clean_timestamp_special_testrun(nz_in))
    /\ NormalizerIdle
ApplyParseLegacyJobNumber ==
    /\ Apply("parse_legacy_job_number", JobNumInputs,
             parse_legacy_job_number(nz_in))
    /\ NormalizerIdle
ApplyCleanTextMultiline ==
    /\ Apply("clean_text_multiline", TextInputs, clean_text_multiline(nz_in))
    /\ NormalizerIdle

InitNormalizers ==
    /\ loader = "normalizers" /\ df_so = <<>> /\ transform_errors = {} /\ pc = "idle" /\ built = NotBuilt
    /\ IdleLoader /\ IdleLookups /\ IdleService /\ IdlePeople
    /\ nz_in \in NormalizerInputs
    /\ nz_fn = "none" /\ nz_out = None

NextNormalizers ==
    \/ ApplyCleanBoolean
    \/ ApplyCleanDate
    \/ ApplyCleanDateStrict
    \/ ApplyCleanDateService
    \/ ApplyCleanTimestampSpecial
    \/ ApplyCleanTimestampSpecialTestrun
    \/ ApplyParseLegacyJobNumber
    \/ ApplyCleanTextMultiline

SpecNormalizers == InitNormalizers /\ [][NextNormalizers]_vars

\* ------------------------------------------------------------------
\* Properties of the record builder
\* ------------------------------------------------------------------
AbsentSpellings == {None, NaN, <<>>, <<" ">>, <<"n","a","n">>, <<"N","a","N">>}
QuoteSpellings == {<<"q","u","o","t","e">>, <<"Q","u","o","t","e">>,
                   <<" ","Q","U","O","T","E"," ">>}
FalseSpellings == {<<"f">>, <<"F","A","L","S","E">>, <<"n","o">>, <<"0">>, PyFalse}
UppercasedStage(raw) ==
    IF raw \in {<<"s","o","l","d">>, <<"S","O","L","D">>} THEN SOLD
    ELSE IF raw = <<"p","r","o","d">> THEN <<"P","R","O","D">>
    ELSE <<"?">>
BuiltRecord == loader = "builder" /\ pc = "built" /\ built.kind = "record"

\* C7: the derived stage is SOLD when a job base number is present and the
\* legacy stage is quote (any letter case) or absent, the uppercased legacy
\* stage when a job base number is present and the legacy stage is anything
\* else, and QUOTE whenever the job base number is absent.
C7_DerivedStage ==
    BuiltRecord =>
        LET raw == df_so[1].STAGE
            hasBase == built.job_base_number # None
        IN /\ (hasBase /\ raw \in QuoteSpellings \cup AbsentSpellings)
                  => built.so_stage = SOLD
           /\ (hasBase /\ raw \notin QuoteSpellings \cup AbsentSpellings)
                  => built.so_stage = UppercasedStage(raw)
           /\ ~hasBase => built.so_stage = QUOTE

C7_Witness ==
    /\ BuiltRecord
    /\ df_so[1].JOB_NUM = <<"M","2","0","7">>
    /\ df_so[1].STAGE = <<"Q","u","o","t","e">>
    /\ built.so_stage = SOLD

SourcePositions ==
    IF loader = "testrun" THEN Range(first_rows)
    ELSE {i \in 1..Len(df_so) : df_so[i].SALES_OR \notin AbsentSpellings}
NoClient(i) == df_so[i].CLIENT_NO = <<"C","9">>
HasJobNumber(i) == df_so[i].JOB_NUM \notin AbsentSpellings
HasCreatedAt(i) == df_so[i].DATE_SOLD \notin AbsentSpellings
RowsFor(t, i) == {x \in db[t] : x.rec = i /\ x.run = run}
RowsOfRun(t, n) == {x \in db[t] : x.run = n}
JobTables == {"production_schedule", "installation", "jobs", "purchase_tracking"}
Sheet2 == loader \in {"fast", "testrun"} /\ Len(df_so) = 2

\* C1: when a set-based insert of the bulk loader fails, the store holds none
\* of the rows this run inserted into the earlier tables.
C1_FailureRollsBackRun ==
    (loader = "fast" /\ pc = "raised") => \A t \in TableNames : RowsOfRun(t, run) = {}

\* C2: a second run of the bulk loader on the same sheets, after a first run
\* that completed, inserts no row into any of the six tables.
C2_SecondRunInsertsNothing ==
    (loader = "fast" /\ run >= 2 /\ finished[run - 1] = "done")
        => \A t \in TableNames : RowsOfRun(t, run) = {}

\* C4: in the bulk loader the sales order of a record references the cabinet
\* of the same record, the job of a record references the sales order, the
\* production schedule and the installation of the same record, and the
\* purchase tracking row of a record references the job of the same record;
\* a completed load has these rows for every prepared record.
SameRecord(x, y) == x.rec = y.rec /\ x.run = y.run
C4_BundleKeysAligned ==
    loader = "fast" =>
        /\ \A s \in db["sales_orders"] :
               \E c \in db["cabinets"] : c.id = s.cabinet_id /\ SameRecord(c, s)
        /\ \A j \in db["jobs"] :
               /\ \E s \in db["sales_orders"] :
                      s.id = j.sales_order_id /\ SameRecord(s, j)
               /\ \E q \in db["production_schedule"] :
                      q.id = j.prod_id /\ SameRecord(q, j)
               /\ \E n \in db["installation"] :
                      n.id = j.installation_id /\ SameRecord(n, j)
        /\ \A u \in db["purchase_tracking"] :
               \E j \in db["jobs"] : j.id = u.job_id /\ SameRecord(j, u)
        /\ pc = "done" =>
               \A i \in SourcePositions : ~NoClient(i) =>
                   /\ RowsFor("sales_orders", i) # {}
                   /\ HasJobNumber(i) =>
                          RowsFor("jobs", i) # {} /\ RowsFor("purchase_tracking", i) # {}

C4_Witness ==
    /\ loader = "fast" /\ pc = "done" /\ Len(df_all) = 2
    /\ HasCreatedAt(1) /\ ~HasJobNumber(1)
    /\ ~HasCreatedAt(2) /\ HasJobNumber(2)
    /\ RowsFor("purchase_tracking", 2) # {}
    /\ RowsFor("sales_orders", 1) # {}

\* C5: in every committed store state of the row-by-row loader a record has
\* its whole bundle or nothing: cabinet and sales order together, and, when
\* the loader derived a job base number for it, production schedule, installation, job and purchase
\* tracking together with them.
Present(t, i) == \E x \in db[t] : x.rec = i
DerivedBaseTestrun(i) == parse_legacy_job_number_testrun(df_so[i].JOB_NUM)[1]
C5_BundleAtomic ==
    loader = "testrun" =>
        \A i \in 1..Len(df_so) :
            /\ Present("cabinets", i) <=> Present("sales_orders", i)
            /\ \A t \in JobTables : Present(t, i) <=> Present("jobs", i)
            /\ Present("jobs", i) => Present("sales_orders", i)
            /\ (Present("sales_orders", i) /\ DerivedBaseTestrun(i) # None)
                  => Present("jobs", i)

C5_Witness ==
    /\ loader = "testrun" /\ pc = "done" /\ Len(all_ids) = 2
    /\ fail_count = 1
    /\ Cardinality(db["purchase_tracking"]) = 1
    /\ Cardinality(db["cabinets"]) = 1

CleanRun == pc = "done" /\ (loader = "testrun" => fail_count = 0)
C8_RowsPerRecord ==
    (loader \in {"fast", "testrun"} /\ CleanRun) =>
        \A i \in SourcePositions : ~NoClient(i) =>
            /\ Cardinality(RowsFor("cabinets", i)) = 1
            /\ Cardinality(RowsFor("sales_orders", i)) = 1
            /\ \A t \in JobTables :
                   Cardinality(RowsFor(t, i)) = (IF HasJobNumber(i) THEN 1 ELSE 0)

\* C8, bulk loader only
C8_RowsPerRecordFast == loader = "fast" => C8_RowsPerRecord

\* C10: in both loaders a record whose CLIENT_NO is not a key of the client
\* map gets no row in any table and is counted as skipped, and the other
\* records are still loaded.
C10_NoClientSkipped ==
    loader \in {"fast", "testrun"} =>
        /\ \A t \in TableNames : \A x \in db[t] \cup tx[t] : ~NoClient(x.rec)
        /\ pc = "done" =>
               skip_count = Cardinality({i \in SourcePositions : NoClient(i)})
        /\ CleanRun =>
               \A i \in SourcePositions : ~NoClient(i) =>
                   RowsFor("sales_orders", i) # {}

C10_Witness ==
    /\ Sheet2 /\ pc = "done"
    /\ df_so[1].SALES_OR # df_so[2].SALES_OR
    /\ NoClient(1) /\ ~NoClient(2)
    /\ skip_count = 1
    /\ RowsFor("sales_orders", 2) # {} /\ RowsFor("cabinets", 1) = {}


\* C12: at the end-of-run summary of a sales-order loader the four counts
\* (Jobs, Quotes, Skipped, Failed) sum to the number of sales orders
\* processed, Jobs is the number of job rows the run committed and Quotes the
\* number of sales orders without a job the run committed, also when a
\* record's commit fails.
QuotesOfRun ==
    {x \in RowsOfRun("sales_orders", run) :
        ~\E j \in db["jobs"] : j.sales_order_id = x.id}
C12_SummaryCounts ==
    (loader \in {"fast", "testrun"} /\ pc = "done") =>
        /\ success_jobs + success_quotes + skip_count + fail_count
               = Cardinality(SourcePositions)
        /\ success_jobs = Cardinality(RowsOfRun("jobs", run))
        /\ success_quotes = Cardinality(QuotesOfRun)

\* C12, bulk loader only
C12_SummaryCountsFast == loader = "fast" => C12_SummaryCounts

\* C13: in every committed store state of either sales-order loader every
\* sales order references exactly one cabinet and no cabinet is referenced
\* by two sales orders; every job references exactly one production schedule
\* and exactly one installation, and none of these is referenced by two jobs.
OneRow(t, key) == key # NULL /\ Cardinality({x \in db[t] : x.id = key}) = 1
C13_OneToOneReferences ==
    loader \in {"fast", "testrun"} =>
        /\ \A x \in db["sales_orders"] : OneRow("cabinets", x.cabinet_id)
        /\ \A x, y \in db["sales_orders"] : x.cabinet_id = y.cabinet_id => x = y
        /\ \A j \in db["jobs"] :
               /\ OneRow("production_schedule", j.prod_id)
               /\ OneRow("installation", j.installation_id)
        /\ \A j, k \in db["jobs"] :
               (j.prod_id = k.prod_id \/ j.installation_id = k.installation_id)
                   => j = k

C13_Witness ==
    /\ loader = "fast" /\ pc = "done" /\ run = 1 /\ Len(df_all) = 2
    /\ ~HasCreatedAt(1) /\ HasCreatedAt(2)
    /\ HasJobNumber(1) /\ HasJobNumber(2)
    /\ Cardinality(db["sales_orders"]) = 2
    /\ Cardinality(db["jobs"]) = 2

\* ------------------------------------------------------------------
\* Properties of the lookup-table migration
\* ------------------------------------------------------------------
LookupOrder(p) == IF p = "species" THEN 1 ELSE IF p = "colors" THEN 2
                  ELSE IF p = "door_styles" THEN 3 ELSE 4
SectionDone(t) == loader = "lookups" /\ LookupOrder(lk_pc) > LookupOrder(t)
TrimmedBefore(t) == {Strip(NameOf(t, lk_before[t][i])) : i \in 1..Len(lk_before[t])}
FirstWithName(n) ==
    CHOOSE k \in 1..Len(lk_sheet) :
        /\ Strip(lk_sheet[k].name) = n
        /\ \A j \in 1..(k - 1) : Strip(lk_sheet[j].name) # n
NewSourceNames(t) ==
    {Strip(lk_sheet[k].name) : k \in 1..Len(lk_sheet)} \ (TrimmedBefore(t) \cup {<<>>})

\* C3: for each of species, colors and door_styles the rows inserted by a run
\* are exactly the source rows whose trimmed name is not among the names
\* already in the table, one row per name, taken from the first source row
\* with that name; a run that follows a run whose insert into the table did
\* not fail inserts no row into it.
C3_LookupDedup ==
    \A t \in LookupTables :
        /\ (SectionDone(t) /\ t \notin lk_failed[lk_run]) =>
               LET ins == lk_inserted[t]
               IN /\ {NameOf(t, ins[i]) : i \in 1..Len(ins)} = NewSourceNames(t)
                  /\ \A i, j \in 1..Len(ins) :
                         NameOf(t, ins[i]) = NameOf(t, ins[j]) => i = j
                  /\ t = "species" =>
                         \A i \in 1..Len(ins) :
                             ins[i].Prefinished =
                                 (lk_sheet[FirstWithName(ins[i].Species)].flag = <<"T">>)
        /\ (SectionDone(t) /\ lk_run >= 2 /\ t \notin lk_failed[lk_run - 1]) =>
               lk_inserted[t] = <<>>

C3_Witness ==
    /\ loader = "lookups" /\ lk_run = 2 /\ lk_pc = "done"
    /\ lk_failed = <<{}, {}>>
    /\ Len(lk_sheet) = 2
    /\ lk_sheet[1].name = <<" ","a">> /\ lk_sheet[2].name = <<"a">>
    /\ lk_sheet[1].flag = <<"T">> /\ lk_sheet[2].flag = <<>>
    /\ lk_db["species"] = <<[Species |-> <<"a">>, Prefinished |-> TRUE]>>
    /\ Len(lk_db["colors"]) = 1 /\ Len(lk_db["door_styles"]) = 1
    /\ lk_inserted = [t \in LookupTables |-> <<>>]


\* C14: when no two names of a lookup table were equal after trimming and
\* case normalization before the run, no two names of the table are equal
\* after trimming and case normalization after the run.
NormalizedName(t, r) == Lower(Strip(NameOf(t, r)))
NormalizedDistinct(t, table) ==
    \A i, j \in 1..Len(table) :
        NormalizedName(t, table[i]) = NormalizedName(t, table[j]) => i = j
C14_NormalizedNamesUnique ==
    \A t \in LookupTables :
        (SectionDone(t) /\ NormalizedDistinct(t, lk_before[t]))
            => NormalizedDistinct(t, lk_db[t])

\* ------------------------------------------------------------------
\* Properties of the service-order loaders
\* ------------------------------------------------------------------
ServiceLoader == loader \in {"service_fast", "service"}
\* the spellings of SALES_OR that name sales order 10, the one with a job
LinkedSpellings == {<<"1","0">>, <<"1","0",".","0">>}
NoParentJob(i) == df_service[i].SALES_OR \notin LinkedSpellings
OrderNumber(raw) == IF raw \in {<<"2">>, <<"2",".","0">>} THEN 2 ELSE 1
\* the Service rows a loader works on: the first row of every SO_NO
ProcessedService ==
    {i \in 1..Len(df_service) :
        \A j \in 1..(i - 1) : OrderNumber(df_service[j].SO_NO) # OrderNumber(df_service[i].SO_NO)}
ServiceSkipped == IF loader = "service_fast" THEN Len(skipped) ELSE skip_count
AllRows(t) == db[t] \cup tx[t]

\* C11: in both service-order loaders a Service row whose normalized
\* SALES_OR is not a key of the job map is counted as skipped and gets no
\* service_orders row and no service_order_parts row; every service_orders
\* row has a non-null job_id.
C11_OrphanServiceSkipped ==
    ServiceLoader =>
        /\ \A x \in AllRows("service_orders") :
               /\ x.job_id # NULL
               /\ x.job_id \in {j.id : j \in db["jobs"]}
               /\ ~NoParentJob(x.rec)
        /\ \A x \in AllRows("service_order_parts") :
               \A i \in ProcessedService :
                   NoParentJob(i) =>
                       OrderNumber(df_bo[x.rec].SO_NO) # OrderNumber(df_service[i].SO_NO)
        /\ pc = "done" =>
               ServiceSkipped = Cardinality({i \in ProcessedService : NoParentJob(i)})

C11_Witness ==
    /\ loader = "service_fast" /\ pc = "done"
    /\ Len(df_service) = 2 /\ Len(df_bo) = 2
    /\ df_service[1].SO_NO = <<"2",".","0">> /\ df_service[1].SALES_OR = <<"1","2">>
    /\ df_service[2].SO_NO = <<"1">> /\ ~NoParentJob(2)
    /\ df_bo[1].SO_NO = <<"2">> /\ df_bo[1].PART_NO = <<"P">>
    /\ df_bo[2].SO_NO = <<"1">> /\ df_bo[2].PART_NO = <<"P">>
    /\ Len(skipped) = 1
    /\ Cardinality(db["service_orders"]) = 1
    /\ Cardinality(db["service_order_parts"]) = 1


\* ------------------------------------------------------------------
\* Properties of the client and installer migrations
\* ------------------------------------------------------------------
\* the trimmed legacy id a source spelling stands for
TrimmedId(raw) == IF raw \in {<<"7">>, <<" ","7">>} THEN <<"7">>
                  ELSE IF raw = <<"8">> THEN <<"8">> ELSE None
HandedOver == loader \in {"client", "installers"} /\ pc \in {"insert", "done", "failed"}

\* C15: the rows the client migration and the installer migration hand to
\* the store contain no two rows with the same trimmed legacy id and no row
\* with an absent legacy id; of the source rows with the same legacy id the
\* first one in source order is the row kept, and every legacy id of the
\* source is handed over.
C15_LegacyIdsUnique ==
    HandedOver =>
        /\ \A i, j \in 1..Len(df_final) :
               Strip(df_final[i].legacy_id) = Strip(df_final[j].legacy_id) => i = j
        /\ \A i \in 1..Len(df_final) :
               /\ df_final[i].legacy_id \notin {None, NaN, <<>>}
               /\ df_final[i].legacy_id = TrimmedId(df[df_final[i].rec].ID)
               /\ \A k \in 1..(df_final[i].rec - 1) :
                      TrimmedId(df[k].ID) # df_final[i].legacy_id
        /\ \A k \in 1..Len(df) :
               TrimmedId(df[k].ID) # None =>
                   \E i \in 1..Len(df_final) : df_final[i].legacy_id = TrimmedId(df[k].ID)

C15_Witness ==
    /\ loader = "client" /\ pc = "done"
    /\ Len(df) = 3
    /\ df[1].ID = <<" ","7">> /\ df[2].ID = NaN /\ df[3].ID = <<"7">>
    /\ df_final = <<[rec |-> 1, legacy_id |-> <<"7">>]>>
    /\ people_db = df_final


\* ------------------------------------------------------------------
\* Properties of the field normalizers
\* ------------------------------------------------------------------
Applied(fn) == loader = "normalizers" /\ nz_fn = fn
\* the token a raw value spells: its text without surrounding whitespace, in
\* upper case
TokenOf(x) == Upper(Strip(Str(x)))
MissingValue(x) == x \in {None, NaN, NaT}
\* an absent timestamp: None, or NaT, the missing timestamp of pandas
Absent(v) == v \in {None, NaT}
TrueTokens == {<<"T">>, <<"T","R","U","E">>, <<"Y","E","S">>, <<"Y">>, <<"1">>}
FalseTokens == {<<"F">>, <<"F","A","L","S","E">>, <<"N","O">>, <<"N">>, <<"0">>}
CompletedTokens == {<<"Y">>, <<"Y","E","S">>, <<"T">>, <<"T","R","U","E">>,
                    <<"C","O","M","P">>, <<"C","O","M","P","L","E","T","E">>}
NotCompletedTokens == {<<"N">>, <<"N","O">>, <<"F">>, <<"F","A","L","S","E">>}

\* C16: clean_boolean returns true for every token of {T, TRUE, YES, Y, 1} in
\* any letter case and with surrounding whitespace, false for every token of
\* {F, FALSE, NO, N, 0} likewise, None for empty, missing and any other
\* input, and never raises.
C16_CleanBoolean ==
    Applied("clean_boolean") =>
        /\ nz_out # Raised
        /\ (~MissingValue(nz_in) /\ TokenOf(nz_in) \in TrueTokens) => nz_out = PyTrue
        /\ (~MissingValue(nz_in) /\ TokenOf(nz_in) \in FalseTokens) => nz_out = PyFalse
        /\ (MissingValue(nz_in) \/ TokenOf(nz_in) \notin TrueTokens \cup FalseTokens)
               => nz_out = None

C16_Witness ==
    /\ Applied("clean_boolean")
    /\ nz_in = <<"\t","y","e","s">>
    /\ nz_out = PyTrue

\* C17: clean_timestamp_special returns the date 1999-09-19 for every token
\* of {Y, YES, T, TRUE, COMP, COMPLETE} in any letter case, an absent value
\* for every token of {N, NO, F, FALSE} and for empty input, and for any
\* other input what the date normalizer of the script returns for it.
C17_TimestampSpecial ==
    (Applied("clean_timestamp_special") \/ Applied("clean_timestamp_special_testrun")) =>
        LET normalized == IF nz_fn = "clean_timestamp_special"
                          THEN clean_date_strict(nz_in) ELSE clean_date(nz_in)
            empty == MissingValue(nz_in) \/ nz_in = <<>>
            completed == ~empty /\ TokenOf(nz_in) \in CompletedTokens
            notCompleted == ~empty /\ TokenOf(nz_in) \in NotCompletedTokens
        IN /\ nz_out # Raised
           /\ completed => nz_out = Datetime("19", "9")
           /\ (notCompleted \/ empty) => Absent(nz_out)
           /\ ~(completed \/ notCompleted \/ empty) =>
                  \/ nz_out = normalized
                  \/ Absent(nz_out) /\ Absent(normalized)

C17_Witness ==
    /\ Applied("clean_timestamp_special")
    /\ nz_in = <<"C","o","m","p">>
    /\ nz_out = Datetime("19", "9")

\* the normalized job number: absent, or the text without surrounding
\* whitespace
AbsentJobNumber(x) ==
    x \in {None, NaN} \/ Strip(x) = <<>> \/ Lower(Strip(x)) = <<"n","a","n">>
FirstHyphen(v) == IndexOf(v, "-")

\* C18 as stated: parse_legacy_job_number of the bulk loader returns (absent,
\* absent) for absent or empty input, base = the text before the first
\* hyphen and suffix = all the text after the first hyphen for a value with a
\* hyphen, and base = the whole value and suffix = absent for a value without
\* a hyphen.
C18_ParseJobNumberAsStated ==
    Applied("parse_legacy_job_number") =>
        IF AbsentJobNumber(nz_in) THEN nz_out = <<None, None>>
        ELSE LET v == Strip(nz_in)
                 k == FirstHyphen(v)
             IN IF k > 0
                THEN nz_out = <<SubSeq(v, 1, k - 1), SubSeq(v, k + 1, Len(v))>>
                ELSE nz_out = <<v, None>>

\* C18: parse_legacy_job_number of the bulk loader returns (absent, absent)
\* for absent or empty input; for a value with a hyphen base = the text
\* before the first hyphen and suffix = all the text after the first hyphen,
\* each without its surrounding whitespace; for a value without a hyphen
\* base = the whole value and suffix = absent.
C18_ParseJobNumber ==
    Applied("parse_legacy_job_number") =>
        IF AbsentJobNumber(nz_in) THEN nz_out = <<None, None>>
        ELSE LET v == Strip(nz_in)
                 k == FirstHyphen(v)
             IN IF k > 0
                THEN nz_out = <<Strip(SubSeq(v, 1, k - 1)),
                                Strip(SubSeq(v, k + 1, Len(v)))>>
                ELSE nz_out = <<v, None>>

C18_Witness ==
    /\ Applied("parse_legacy_job_number")
    /\ nz_in = <<"5","0","0","-","S","1","-","2">>
    /\ nz_out = <<(<<"5","0","0">>), (<<"S","1","-","2">>)>>

\* C19: every date normalizer (clean_date of migration_utils.py,
\* clean_date_strict of the sales-order loaders, clean_date of the service
\* loaders) returns an absent value for empty, missing or unparsable input,
\* returns a datetime unchanged, and never raises.
DateNormalizers == {"clean_date", "clean_date_strict", "clean_date_service"}
EmptyOrUnparsable == {None, NaN, NaT, <<>>, <<" ">>, <<"n","a","n">>,
                      <<"N","a","T">>, <<"x">>, <<"5","/">>, PyTrue}
DateNormalizerContract ==
    /\ nz_out # Raised
    /\ IsDatetime(nz_in) => nz_out = nz_in
    /\ nz_in \in EmptyOrUnparsable => Absent(nz_out)
C19_DateNormalizers ==
    (loader = "normalizers" /\ nz_fn \in DateNormalizers) => DateNormalizerContract

\* C19, the date normalizers of the sales-order and service loaders only
C19_LoaderDateNormalizers ==
    (loader = "normalizers" /\ nz_fn \in DateNormalizers \ {"clean_date"})
        => DateNormalizerContract

\* C20: clean_text_multiline returns None for absent or empty input and
\* otherwise the trimmed text with every backslash-n pair replaced by a line
\* break and every backslash-t pair replaced by a space, all other
\* characters unchanged.
AbsentText(x) ==
    x \in {None, NaN} \/ Strip(x) = <<>> \/ Lower(Strip(x)) = <<"n","a","n">>
C20_TextMultiline ==
    Applied("clean_text_multiline") =>
        IF AbsentText(nz_in) THEN nz_out = None
        ELSE nz_out = Replace2(Replace2(Strip(nz_in), "\\", "n", "\n"),
                               "\\", "t", " ")

\* ------------------------------------------------------------------
\* Properties of the sales-order loaders: interruption, order of the
\* inserts, commit points, repeated sales-order numbers
\* ------------------------------------------------------------------
\* the committed rows taken from source row i, of any run
RowsOfRecord(t, i) == {x \in db[t] : x.rec = i}
SalesOrderTables == {"cabinets", "sales_orders"} \cup JobTables
\* every committed row is a member of a complete bundle of its record
CompleteBundles ==
    /\ \A c \in db["cabinets"] : \E s \in db["sales_orders"] : s.cabinet_id = c.id
    /\ \A q \in db["production_schedule"] : \E j \in db["jobs"] : j.prod_id = q.id
    /\ \A n \in db["installation"] :
           \E j \in db["jobs"] : j.installation_id = n.id
    /\ \A j \in db["jobs"] : \E u \in db["purchase_tracking"] : u.job_id = j.id
InterruptedThenCompleted ==
    /\ loader = "fast" /\ run = 2 /\ finished = <<"raised">> /\ pc = "done"
    /\ \E t \in SalesOrderTables : RowsOfRun(t, 1) # {}

\* C22: when a bulk run is interrupted after one of its commits and the
\* loader is then run again to completion on the same source, the store
\* equals the store of one uninterrupted run: no source record has duplicate
\* rows and the rows committed before the interruption are members of
\* complete bundles.
C22_InterruptedRerun ==
    InterruptedThenCompleted =>
        /\ \A t \in SalesOrderTables : \A i \in 1..Len(df_so) :
               Cardinality(RowsOfRecord(t, i)) <= 1
        /\ CompleteBundles

\* the rows a step adds to the store, committed or not, and the rows the
\* statements of the open transaction can see before the step
Inserted(t) == (db'[t] \cup tx'[t]) \ (db[t] \cup tx[t])
Exists(t, key, x) ==
    \E y \in db[t] \cup tx[t] : y.id = key /\ SameRecord(y, x)

\* one step of a sales-order loader inserts only rows whose references are
\* already in the store
InsertsAfterReferences ==
    loader \in {"fast", "testrun"} =>
        /\ \A s \in Inserted("sales_orders") : Exists("cabinets", s.cabinet_id, s)
        /\ \A j \in Inserted("jobs") :
               /\ Exists("sales_orders", j.sales_order_id, j)
               /\ Exists("production_schedule", j.prod_id, j)
               /\ Exists("installation", j.installation_id, j)
        /\ \A u \in Inserted("purchase_tracking") : Exists("jobs", u.job_id, u)

\* C24: in both sales-order loaders a row is inserted only when every row it
\* references is already in the store: a sales order after its cabinet, a job
\* after its sales order, production schedule and installation, a purchase
\* tracking row after its job.
C24_DependencyOrder == [][InsertsAfterReferences]_vars

C24_Witness ==
    /\ loader = "testrun" /\ pc = "row_commit"
    /\ tx["purchase_tracking"] # {} /\ tx["jobs"] # {}
    /\ db["sales_orders"] # {}

\* C26: at every commit point of the bulk loader, the commits between its
\* steps included, every committed cabinet is referenced by exactly one
\* committed sales order, every committed production schedule and
\* installation by exactly one committed job, and every committed job has
\* exactly one committed purchase tracking row.
C26_CommittedSatellites ==
    loader = "fast" =>
        /\ \A c \in db["cabinets"] :
               Cardinality({s \in db["sales_orders"] : s.cabinet_id = c.id}) = 1
        /\ \A q \in db["production_schedule"] :
               Cardinality({j \in db["jobs"] : j.prod_id = q.id}) = 1
        /\ \A n \in db["installation"] :
               Cardinality({j \in db["jobs"] : j.installation_id = n.id}) = 1
        /\ \A j \in db["jobs"] :
               Cardinality({u \in db["purchase_tracking"] : u.job_id = j.id}) = 1

\* C26 at the end of a bulk run that completed, after a first run or after
\* runs that completed
C26_CommittedSatellitesAtSummary ==
    (pc = "done" /\ \A n \in 1..Len(finished) : finished[n] = "done")
        => C26_CommittedSatellites

\* the sales-order number of the source row a committed row was taken from
NumberOf(x) == clean_val(df_so[x.rec].SALES_OR)

\* C27: within one run of a sales-order loader every distinct source
\* sales-order number has at most one sales order, one cabinet and one job,
\* also when several rows of the sheet carry the same SALES_OR value.
C27_OneBundlePerNumber ==
    loader \in {"fast", "testrun"} =>
        \A n \in 1..run : \A t \in {"sales_orders", "cabinets", "jobs"} :
            \A x, y \in RowsOfRun(t, n) : NumberOf(x) = NumberOf(y) => x = y

\* C27, row-by-row loader only
C27_OneBundlePerNumberTestrun == loader = "testrun" => C27_OneBundlePerNumber

\* ------------------------------------------------------------------
\* The two sales-order loaders on the same source row
\* ------------------------------------------------------------------
\* the payloads the row-by-row loader derives from the row given to the
\* record builder of the bulk loader
PayloadTestrun == TransformTestrun(df_so[1], 1, clean_val(df_so[1].SALES_OR))

\* C25: for every source record the row-by-row loader derives the same
\* stage, the same ship status and the same (job base number, job suffix)
\* pair as the record builder of the bulk loader, and so creates a job for
\* the same records.
C25_LoadersAgree ==
    BuiltRecord =>
        /\ PayloadTestrun.so_stage = built.so_stage
        /\ PayloadTestrun.prod_ship_status = built.prod_ship_status
        /\ PayloadTestrun.job_base_number = built.job_base_number
        /\ PayloadTestrun.job_suffix = built.job_suffix
        /\ (PayloadTestrun.job_base_number # None) <=> HasJob(built)

\* ------------------------------------------------------------------
\* Properties of the bulk service-order loader
\* ------------------------------------------------------------------
\* the service orders and parts the statements of the run can see
HeadersInStore == db["service_orders"] \cup tx["service_orders"]
PartsInStore == db["service_order_parts"] \cup tx["service_order_parts"]

\* C29: in the bulk service-order loader every inserted part references the
\* service order whose number equals the normalized SO_NO of the part, and a
\* part whose SO_NO matches no inserted service order is never inserted, also
\* when skipped headers make the inserted service orders a sparse subset of
\* the sheet.
C29_PartsAligned ==
    loader = "service_fast" =>
        /\ \A p \in PartsInStore :
               \E h \in HeadersInStore :
                   /\ h.id = p.service_order_id
                   /\ h.service_order_number = BoSoNo(p.rec)
        /\ \A k \in 1..Len(df_bo) :
               (\A h \in HeadersInStore : h.service_order_number # BoSoNo(k))
                   => \A p \in PartsInStore : p.rec # k

C29_Witness ==
    /\ loader = "service_fast" /\ pc = "done"
    /\ skipped = <<<<"1">>>>
    /\ Len(df_bo) = 2 /\ BoSoNo(1) = <<"1">> /\ BoSoNo(2) = <<"2">>
    /\ Cardinality(db["service_orders"]) = 1
    /\ \E p \in db["service_order_parts"] : p.rec = 2

\* C30: the bulk service-order loader is all-or-nothing: the headers and the
\* parts are committed by one commit after both inserts, and when an insert
\* or the commit fails the run rolls back and raises, and the store holds no
\* service order and no part of the run.
C30_AllOrNothing ==
    loader = "service_fast" =>
        /\ pc # "done" => db = ServiceStore
        /\ pc = "raised" => tx = EmptyTables
        /\ pc = "done" =>
               /\ Cardinality(db["service_orders"]) = Len(headers_data)
               /\ headers_data # <<>> =>
                      Cardinality(db["service_order_parts"])
                          = Len(all_parts_data(Len(new_so_ids)))

C30_Witness ==
    /\ loader = "service_fast" /\ pc = "raised"
    /\ Len(new_so_ids) = 2
    /\ seq["service_order_parts"] > 1
    /\ db = ServiceStore

\* ------------------------------------------------------------------
\* Properties of the sales-order loaders: transform errors, lookup misses,
\* job numbers without a base
\* ------------------------------------------------------------------
\* C21: in the bulk loader an exception raised while one source record is
\* transformed aborts the batch: no row of any record is inserted and the
\* run does not go on to load the other records.
C21_TransformErrorAborts ==
    (loader = "fast" /\ transform_errors # {}) =>
        /\ pc \in {"start", "raised"}
        /\ \A t \in TableNames : db[t] = {} /\ tx[t] = {}

\* C21 as the bulk loader behaves: the record whose transform raised is
\* skipped, and a run that completes has loaded the other records
C21_TransformErrorSkipsRecord ==
    loader = "fast" =>
        /\ \A t \in TableNames : \A x \in db[t] \cup tx[t] :
               x.rec \notin transform_errors
        /\ pc = "done" =>
               /\ skip_count = Cardinality(transform_errors)
               /\ \A i \in (1..Len(df_so)) \ transform_errors :
                      RowsFor("sales_orders", i) # {}

\* the key an optional column resolves to: the key of the table row when the
\* cell spells its name, no key otherwise
KeyOfSpecies(i) == IF df_so[i].SPECIES = <<" ","O">> THEN 11 ELSE NULL
KeyOfColor(i) == IF df_so[i].COLOR = <<"W">> THEN 21 ELSE NULL
KeyOfDoorStyle(i) == IF df_so[i].LOWER_DOOR = <<"D">> THEN 31 ELSE NULL
KeyOfInstaller(i) == IF df_so[i].INSTALL_ID = <<"4">> THEN 41 ELSE NULL
\* the loader creates a job for the record: decided by the job number alone
JobDecided(i) ==
    IF loader = "testrun" THEN DerivedBaseTestrun(i) # None
    ELSE parse_legacy_job_number(df_so[i].JOB_NUM)[1] # None

\* C23: in both sales-order loaders a species, color, door style or
\* installer value that is not a key of its lookup map does not skip or fail
\* the record: the cabinet (or installation) row is inserted with a null
\* foreign key and the other rows of the record are inserted as for a record
\* whose lookups succeeded.
C23_LookupMissGivesNull ==
    loader \in {"fast", "testrun"} =>
        /\ \A c \in db["cabinets"] \cup tx["cabinets"] :
               /\ c.species_id = KeyOfSpecies(c.rec)
               /\ c.color_id = KeyOfColor(c.rec)
               /\ c.door_style_id = KeyOfDoorStyle(c.rec)
        /\ \A n \in db["installation"] \cup tx["installation"] :
               n.installer_id = KeyOfInstaller(n.rec)
        /\ pc = "done" => skip_count = 0
        /\ CleanRun =>
               \A i \in SourcePositions :
                   /\ Cardinality(RowsFor("cabinets", i)) = 1
                   /\ Cardinality(RowsFor("sales_orders", i)) = 1
                   /\ \A t \in JobTables :
                          Cardinality(RowsFor(t, i)) = (IF JobDecided(i) THEN 1 ELSE 0)

C23_Witness ==
    /\ loader = "testrun" /\ pc = "done" /\ fail_count = 0 /\ Len(df_so) = 1
    /\ df_so[1].SPECIES = <<"X">> /\ df_so[1].COLOR = <<"W">>
    /\ df_so[1].JOB_NUM = <<"5","0","0">>
    /\ \E c \in db["cabinets"] : c.species_id = NULL /\ c.color_id = 21
    /\ \E n \in db["installation"] : n.installer_id = 41
    /\ db["purchase_tracking"] # {}

\* the text of JOB_NUM before its first hyphen is empty or only whitespace
BaseIsBlank(i) ==
    LET v == df_so[i].JOB_NUM
    IN /\ IsStr(v) /\ IndexOf(v, "-") > 0
       /\ Strip(SubSeq(v, 1, IndexOf(v, "-") - 1)) = <<>>

\* C28: every job row inserted by the bulk loader has a non-empty
\* job_base_number: a JOB_NUM whose text before the first hyphen is empty or
\* only whitespace gives no job, production schedule, installation or
\* purchase tracking row.
C28_JobsHaveBaseNumber ==
    loader = "fast" =>
        /\ \A j \in db["jobs"] \cup tx["jobs"] : j.job_base_number \notin {None, <<>>}
        /\ \A t \in JobTables : \A x \in db[t] \cup tx[t] : ~BaseIsBlank(x.rec)

====
